---- MODULE Spec2Model ----
(***************************************************************************)
(* SMS_Sender: the PDU codec (lib/encoding.py, lib/pdu.py), the modem      *)
(* transport (lib/modem.py, lib/modem_gsmlib.py) and the outbox retry      *)
(* state machine (lib/database.py).                                        *)
(*                                                                         *)
(* A character is its Unicode code point, a string is a sequence of code   *)
(* points, a bytes object is a sequence of integers in 0..255.             *)
(***************************************************************************)
EXTENDS Integers, Sequences, FiniteSets, TLC

(***************************************************************************)
(* Generic helpers for Python strings and integers.                        *)
(***************************************************************************)

\* The set of elements of a sequence (`c in s` for a one-character c).
Range(s) == {s[i] : i \in 1..Len(s)}

\* s[a:b] of Python for 0 <= a, 0 <= b (0-based, end exclusive, clipped).
Slice(s, a, b) ==
    LET hi == IF b < Len(s) THEN b ELSE Len(s)
    IN  IF a >= hi THEN <<>> ELSE [i \in 1..(hi - a) |-> s[a + i]]

\* TRUE, for any v. TLC computes an operator's argument when it is first
\* read; a loop whose state is threaded through its iterations tests
\* Evaluated(state) so that the state is computed before the next iterations
\* start, as in the source, and not inside the last of them.
Evaluated(v) == v = v

\* a ** n for the small shifts used by the packer.
RECURSIVE Pow2(_)
Pow2(n) == IF n <= 0 THEN 1 ELSE 2 * Pow2(n - 1)

\* a | b on non-negative integers.
RECURSIVE BitOr(_, _)
BitOr(a, b) ==
    IF a = 0 THEN b
    ELSE IF b = 0 THEN a
    ELSE (IF a % 2 = 1 \/ b % 2 = 1 THEN 1 ELSE 0) + 2 * BitOr(a \div 2, b \div 2)

\* a << n and a >> n.
Shl(a, n) == a * Pow2(n)
Shr(a, n) == a \div Pow2(n)

(***************************************************************************)
(* lib/encoding.py                                                         *)
(***************************************************************************)

\* The GSM 7-bit basic table as the source spells it (127 characters).
gsm7_basic ==
  <<
     64, 163, 36, 165, 232, 233, 249, 236, 242, 199, 10, 216, 248, 13, 197, 229,
     916, 95, 934, 915, 923, 937, 928, 936, 931, 920, 926, 198, 230, 223, 201, 32,
     33, 34, 35, 164, 37, 38, 39, 40, 41, 42, 43, 44, 45, 46, 47, 48,
     49, 50, 51, 52, 53, 54, 55, 56, 57, 58, 59, 60, 61, 62, 63, 161,
     65, 66, 67, 68, 69, 70, 71, 72, 73, 74, 75, 76, 77, 78, 79, 80,
     81, 82, 83, 84, 85, 86, 87, 88, 89, 90, 196, 214, 209, 220, 167, 191,
     97, 98, 99, 100, 101, 102, 103, 104, 105, 106, 107, 108, 109, 110, 111, 112,
     113, 114, 115, 116, 117, 118, 119, 120, 121, 122, 228, 246, 241, 252, 224
  >>

\* gsm7_extended of lib/encoding.py: the string ^{}\[~]| and the euro sign.
gsm7_extended == <<94, 123, 125, 92, 91, 126, 93, 124, 8364>>

gsm7_basic_set == Range(gsm7_basic)
gsm7_extended_set == Range(gsm7_extended)

is_gsm7_compatible(text) ==
    \A i \in 1..Len(text) :
        text[i] \in gsm7_basic_set \/ text[i] \in gsm7_extended_set

\* sum(2 if c in gsm7_extended else 1 for c in text)
char_weight(c) == IF c \in gsm7_extended_set THEN 2 ELSE 1

\* The sum over text[lo..hi], halving the range.
RECURSIVE weighted_count(_, _, _)
weighted_count(text, lo, hi) ==
    IF lo > hi THEN 0
    ELSE IF lo = hi THEN char_weight(text[lo])
    ELSE LET mid == (lo + hi) \div 2
         IN  weighted_count(text, lo, mid) + weighted_count(text, mid + 1, hi)

calculate_sms_parts(text) ==
    IF is_gsm7_compatible(text)
    THEN LET char_count == weighted_count(text, 1, Len(text))
         IN  IF char_count <= 160
             THEN [num_parts |-> 1, chars_per_part |-> 160, encoding |-> "GSM7"]
             ELSE [num_parts |-> (char_count + 152) \div 153,
                   chars_per_part |-> 153, encoding |-> "GSM7"]
    ELSE LET char_count == Len(text)
         IN  IF char_count <= 70
             THEN [num_parts |-> 1, chars_per_part |-> 70, encoding |-> "UCS2"]
             ELSE [num_parts |-> (char_count + 66) \div 67,
                   chars_per_part |-> 67, encoding |-> "UCS2"]

\* Mutant of split_gsm7_step: < where the code tests <=.
split_gsm7_step_short(st, char, chars_per_part) ==
    LET char_length == char_weight(char)
    IN  IF st.current_length + char_length < chars_per_part
        THEN [parts          |-> st.parts,
              current_part   |-> Append(st.current_part, char),
              current_length |-> st.current_length + char_length]
        ELSE [parts          |-> Append(st.parts, st.current_part),
              current_part   |-> <<char>>,
              current_length |-> char_length]

\* Mutant of split_gsm7_step: the test counts every character as 1.
split_gsm7_step_unweighted(st, char, chars_per_part) ==
    LET char_length == char_weight(char)
    IN  IF st.current_length + 1 <= chars_per_part
        THEN [parts          |-> st.parts,
              current_part   |-> Append(st.current_part, char),
              current_length |-> st.current_length + char_length]
        ELSE [parts          |-> Append(st.parts, st.current_part),
              current_part   |-> <<char>>,
              current_length |-> char_length]

\* One iteration of the GSM7 loop of split_message on the loop state
\* [parts, current_part, current_length].
split_gsm7_step(st, char, chars_per_part) ==
    LET char_length == char_weight(char)
    IN  IF st.current_length + char_length <= chars_per_part
        THEN [parts          |-> st.parts,
              current_part   |-> Append(st.current_part, char),
              current_length |-> st.current_length + char_length]
        ELSE [parts          |-> Append(st.parts, st.current_part),
              current_part   |-> <<char>>,
              current_length |-> char_length]

\* The iterations for text[lo..hi] in order, halving the range.
RECURSIVE split_gsm7_loop(_, _, _, _, _)
split_gsm7_loop(st, text, chars_per_part, lo, hi) ==
    IF lo > hi THEN st
    ELSE IF lo = hi THEN split_gsm7_step(st, text[lo], chars_per_part)
    ELSE LET mid  == (lo + hi) \div 2
             half == split_gsm7_loop(st, text, chars_per_part, lo, mid)
         IN  IF Evaluated(half)
             THEN split_gsm7_loop(half, text, chars_per_part, mid + 1, hi)
             ELSE half

split_gsm7(text, chars_per_part) ==
    LET st == split_gsm7_loop([parts |-> <<>>, current_part |-> <<>>,
                               current_length |-> 0],
                              text, chars_per_part, 1, Len(text))
    IN  IF st.current_part # <<>> THEN Append(st.parts, st.current_part)
        ELSE st.parts

\* Mutant of split_ucs2: every slice after the first starts one character
\* late.
split_ucs2_gap(text, chars_per_part) ==
    LET n == (Len(text) + chars_per_part - 1) \div chars_per_part
    IN  [k \in 1..n |-> Slice(text, (k - 1) * chars_per_part + (IF k > 1 THEN 1 ELSE 0),
                              k * chars_per_part)]

\* The UCS2 branch: range(0, len(text), chars_per_part) slices.
split_ucs2(text, chars_per_part) ==
    LET n == (Len(text) + chars_per_part - 1) \div chars_per_part
    IN  [k \in 1..n |-> Slice(text, (k - 1) * chars_per_part, k * chars_per_part)]

split_message(text, chars_per_part) ==
    IF is_gsm7_compatible(text)
    THEN split_gsm7(text, chars_per_part)
    ELSE split_ucs2(text, chars_per_part)

(***************************************************************************)
(* lib/pdu.py                                                              *)
(***************************************************************************)

\* gsm7_extended of lib/pdu.py: character -> code septet after ESC.
gsm7_extended_codes ==
    (12 :> 10) @@ (94 :> 20) @@ (123 :> 40) @@ (125 :> 41) @@ (92 :> 47) @@
    (91 :> 60) @@ (126 :> 61) @@ (93 :> 62) @@ (124 :> 64) @@ (8364 :> 101)

\* gsm7_basic.index(char): 0-based position of the first occurrence.
gsm7_index(char) ==
    (CHOOSE i \in 1..Len(gsm7_basic) :
        gsm7_basic[i] = char /\ \A j \in 1..(i - 1) : gsm7_basic[j] # char) - 1

\* The septets one character contributes ("Convert to septet values").
char_septets(char) ==
    IF char \in DOMAIN gsm7_extended_codes
    THEN <<27, gsm7_extended_codes[char]>>
    ELSE IF char \in gsm7_basic_set
         THEN <<gsm7_index(char)>>
         ELSE <<63>>

RECURSIVE text_septets(_, _, _)
text_septets(text, lo, hi) ==
    IF lo > hi THEN <<>>
    ELSE IF lo = hi THEN char_septets(text[lo])
    ELSE LET mid == (lo + hi) \div 2
         IN  text_septets(text, lo, mid) \o text_septets(text, mid + 1, hi)

\* One iteration of the packing loop on the loop state [shift, carry,
\* octets]; last is i == len(septets) - 1.
pack_step(st, septet, last) ==
    IF st.shift = 7
    THEN [shift |-> 0, carry |-> 0, octets |-> st.octets]
    ELSE LET octet == BitOr(Shl(septet, st.shift), st.carry) % 256
             carry == Shr(septet, 7 - st.shift)
             out   == Append(st.octets, octet)
         IN  [shift  |-> st.shift + 1,
              carry  |-> carry,
              octets |-> IF last /\ carry # 0 THEN Append(out, carry) ELSE out]

\* The iterations for septets[lo..hi] in order, halving the range.
RECURSIVE pack_loop(_, _, _, _)
pack_loop(st, septets, lo, hi) ==
    IF lo > hi THEN st
    ELSE IF lo = hi THEN pack_step(st, septets[lo], lo = Len(septets))
    ELSE LET mid  == (lo + hi) \div 2
             half == pack_loop(st, septets, lo, mid)
         IN  IF Evaluated(half)
             THEN pack_loop(half, septets, mid + 1, hi)
             ELSE half

\* The packing shared by encode_gsm7 (shift starts at 0) and
\* encode_gsm7_with_padding (shift starts at padding_bits).
pack_septets(septets, shift) ==
    pack_loop([shift |-> shift, carry |-> 0, octets |-> <<>>],
              septets, 1, Len(septets)).octets

encode_gsm7(text) ==
    pack_septets(text_septets(text, 1, Len(text)), 0)

encode_gsm7_with_padding(text, padding_bits) ==
    pack_septets(text_septets(text, 1, Len(text)), padding_bits)

\* text.encode('utf-16-be') of one character (a surrogate pair above U+FFFF).
utf16be_char(c) ==
    IF c < 65536
    THEN <<c \div 256, c % 256>>
    ELSE LET v  == c - 65536
             hi == 55296 + (v \div 1024)
             lo == 56320 + (v % 1024)
         IN  <<hi \div 256, hi % 256, lo \div 256, lo % 256>>

RECURSIVE utf16be(_, _, _)
utf16be(text, lo, hi) ==
    IF lo > hi THEN <<>>
    ELSE IF lo = hi THEN utf16be_char(text[lo])
    ELSE LET mid == (lo + hi) \div 2
         IN  utf16be(text, lo, mid) \o utf16be(text, mid + 1, hi)

\* str.isdigit() on the characters the model draws dial strings from: the
\* ASCII digits and the Arabic-Indic digits U+0660..U+0669.
isdigit(c) == (c >= 48 /\ c <= 57) \/ (c >= 1632 /\ c <= 1641)

\* The value of one hexadecimal digit for bytes.fromhex, -1 when it is none.
hex_value(c) ==
    IF c >= 48 /\ c <= 57 THEN c - 48
    ELSE IF c >= 65 /\ c <= 70 THEN c - 55
    ELSE IF c >= 97 /\ c <= 102 THEN c - 87
    ELSE -1

\* ''.join(c for c in phone if c.isdigit() or c == '+')
RECURSIVE phone_filter(_, _)
phone_filter(phone, n) ==
    IF n = 0 THEN <<>>
    ELSE LET rest == phone_filter(phone, n - 1)
         IN  IF isdigit(phone[n]) \/ phone[n] = 43
             THEN Append(rest, phone[n]) ELSE rest

\* Mutant of encode_phone_number: the digits of a pair are not swapped.
encode_phone_number_unswapped(phone) ==
    LET kept    == phone_filter(phone, Len(phone))
        plus    == Len(kept) > 0 /\ kept[1] = 43
        digits  == IF plus THEN Tail(kept) ELSE kept
        padded  == IF Len(digits) % 2 = 1 THEN Append(digits, 70) ELSE digits
        valid   == \A i \in 1..Len(padded) : hex_value(padded[i]) >= 0
    IN  [ok    |-> valid,
         ton   |-> IF plus THEN 145 ELSE 129,
         bytes |-> IF valid
                   THEN [k \in 1..(Len(padded) \div 2) |->
                            16 * hex_value(padded[2 * k - 1])
                               + hex_value(padded[2 * k])]
                   ELSE <<>>]

\* encode_phone_number: [ok, ton, bytes]; ok = FALSE when bytes.fromhex
\* raises ValueError.
encode_phone_number(phone) ==
    LET kept    == phone_filter(phone, Len(phone))
        plus    == Len(kept) > 0 /\ kept[1] = 43
        ton     == IF plus THEN 145 ELSE 129
        digits  == IF plus THEN Tail(kept) ELSE kept
        padded  == IF Len(digits) % 2 = 1 THEN Append(digits, 70) ELSE digits
        swapped == [i \in 1..Len(padded) |->
                        IF i % 2 = 1 THEN padded[i + 1] ELSE padded[i - 1]]
        valid   == \A i \in 1..Len(swapped) : hex_value(swapped[i]) >= 0
    IN  [ok    |-> valid,
         ton   |-> ton,
         bytes |-> IF valid
                   THEN [k \in 1..(Len(swapped) \div 2) |->
                            16 * hex_value(swapped[2 * k - 1])
                               + hex_value(swapped[2 * k])]
                   ELSE <<>>]

\* len(phone.replace('+', ''))
RECURSIVE count_not_plus(_, _)
count_not_plus(phone, n) ==
    IF n = 0 THEN 0
    ELSE count_not_plus(phone, n - 1) + (IF phone[n] = 43 THEN 0 ELSE 1)

\* One hexadecimal digit, upper case, as a character.
hex_digit(v) == IF v < 10 THEN 48 + v ELSE 55 + v

\* f'{b:02X}': at least two digits, more when b > 255.
RECURSIVE hex_upper(_)
hex_upper(b) == IF b < 16 THEN <<hex_digit(b)>>
                ELSE Append(hex_upper(b \div 16), hex_digit(b % 16))

format_02X(b) == IF b < 16 THEN <<48, hex_digit(b)>> ELSE hex_upper(b)

RECURSIVE pdu_to_hex(_, _, _)
pdu_to_hex(pdu, lo, hi) ==
    IF lo > hi THEN <<>>
    ELSE IF lo = hi THEN format_02X(pdu[lo])
    ELSE LET mid == (lo + hi) \div 2
         IN  pdu_to_hex(pdu, lo, mid) \o pdu_to_hex(pdu, mid + 1, hi)

\* padding_bits = 7 - ((udh_len + 1) * 8) % 7, 7 replaced by 0.
udh_padding_bits(udh_len) ==
    LET p == 7 - (((udh_len + 1) * 8) % 7) IN IF p = 7 THEN 0 ELSE p

\* create_pdu: [ok, pdu (the bytes), pdu_hex, tpdu_len]; ok = FALSE when
\* encode_phone_number raises.
create_pdu(phone, text, ref_num, part_num, total_parts) ==
    LET gsm       == is_gsm7_compatible(text)
        dcs       == IF gsm THEN 0 ELSE 8
        user_data == IF gsm THEN encode_gsm7(text) ELSE utf16be(text, 1, Len(text))
        udl       == IF gsm THEN Len(text) ELSE Len(user_data)
        enc       == encode_phone_number(phone)
        phone_len == count_not_plus(phone, Len(phone))
        pdu_type  == IF total_parts > 1 THEN 65 ELSE 1
        head      == <<0, pdu_type, 0, phone_len, enc.ton>> \o enc.bytes \o <<0, dcs>>
        udh       == <<0, 3, ref_num % 256, total_parts, part_num>>
        udh_len   == Len(udh) + 1
        padding_bits == udh_padding_bits(udh_len)
        total_udl == IF gsm
                     THEN udh_len + 1 + Len(text) + (IF padding_bits > 0 THEN 1 ELSE 0)
                     ELSE udh_len + 1 + udl
        data      == IF gsm /\ padding_bits > 0
                     THEN encode_gsm7_with_padding(text, padding_bits)
                     ELSE user_data
        pdu       == IF total_parts > 1
                     THEN head \o <<total_udl, udh_len>> \o udh \o data
                     ELSE head \o <<udl>> \o user_data
    IN  [ok       |-> enc.ok,
         pdu      |-> pdu,
         pdu_hex  |-> pdu_to_hex(pdu, 1, Len(pdu)),
         tpdu_len |-> Len(pdu) - 1]

(***************************************************************************)
(* Python string methods used on modem responses.  Responses are ASCII.    *)
(***************************************************************************)

\* str.isspace() of one character.
isspace(c) == c \in {9, 10, 11, 12, 13, 28, 29, 30, 31, 32, 133, 160}

\* s.strip()
strip(s) ==
    IF \A i \in 1..Len(s) : isspace(s[i]) THEN <<>>
    ELSE LET first == CHOOSE i \in 1..Len(s) :
                          ~isspace(s[i]) /\ \A j \in 1..(i - 1) : isspace(s[j])
             last_ == CHOOSE i \in 1..Len(s) :
                          ~isspace(s[i]) /\ \A j \in (i + 1)..Len(s) : isspace(s[j])
         IN  Slice(s, first - 1, last_)

\* s.upper()
upper(s) == [i \in 1..Len(s) |-> IF s[i] >= 97 /\ s[i] <= 122 THEN s[i] - 32 ELSE s[i]]

\* The 1-based positions at which sub occurs in s.
occurrences(s, sub) ==
    {i \in 1..(Len(s) - Len(sub) + 1) : \A j \in 1..Len(sub) : s[i + j - 1] = sub[j]}

\* sub in s
contains(s, sub) == occurrences(s, sub) # {}

\* s.count(sub) for the tokens the code counts (+CMGS:, OK, ERROR): none of
\* them overlaps itself, so every occurrence is counted.
count(s, sub) == Cardinality(occurrences(s, sub))

\* s.split('\r\n'): the lines, as the set of their [from, to) 0-based bounds.
split_crlf(s) ==
    LET seps   == occurrences(s, <<13, 10>>)
        starts == {0} \cup {p + 1 : p \in seps}
    IN  {[from |-> a,
          to   |-> IF \E p \in seps : p > a
                   THEN (CHOOSE p \in seps : p > a /\ \A q \in seps : q > a => p <= q) - 1
                   ELSE Len(s)] : a \in starts}

\* str(n) for n >= 0.
RECURSIVE int_str(_)
int_str(n) == IF n < 10 THEN <<48 + n>> ELSE Append(int_str(n \div 10), 48 + (n % 10))

\* '\n'.join(responses)
RECURSIVE join_lf(_, _)
join_lf(responses, n) ==
    IF n = 0 THEN <<>>
    ELSE IF n = 1 THEN responses[1]
    ELSE join_lf(responses, n - 1) \o <<10>> \o responses[n]

TOK_CMGS == <<43, 67, 77, 71, 83, 58>>                        \* "+CMGS:"
TOK_OK == <<79, 75>>                                           \* "OK"
TOK_ERROR == <<69, 82, 82, 79, 82>>                            \* "ERROR"
TOK_CMS_ERROR == <<43, 67, 77, 83, 32, 69, 82, 82, 79, 82, 58>> \* "+CMS ERROR:"

(***************************************************************************)
(* lib/modem.py                                                            *)
(*                                                                         *)
(* Time is counted in ticks of 0.1 s, the sleep of one read-loop iteration.*)
(* What the modem does after the PDU is written is a script: a sequence of *)
(* events [at, data], the non-empty data reaching the serial buffer `at`   *)
(* ticks after start_time is taken (at <= 0: during the sleeps before it), *)
(* in ascending order of at.  A sleep lasts a little longer than asked, so *)
(* after k iterations elapsed < max_wait reads k < max_wait in ticks and   *)
(* elapsed > idle_timeout reads k >= idle_timeout in ticks.                *)
(***************************************************************************)

\* modem_timeout, the default of send_sms, send_sms_pdu and
\* process_pending_sms, in seconds.
modem_timeout == 3

\* idle_timeout of send_sms_pdu, in seconds.
idle_timeout == 2

\* 1 / 0.1: loop iterations (time.sleep(0.1)) per second.
ticks_per_second == 10

\* time.sleep(0.3) after a success indicator, in ticks.
grace_ticks == 3

\* ser.read_all() at time now: the data of the events not yet read that
\* have arrived, [chunk, next]; chunk = <<>> when in_waiting is 0.
RECURSIVE read_all(_, _, _)
read_all(script, next, now) ==
    IF next <= Len(script) /\ script[next].at <= now
    THEN LET more == read_all(script, next + 1, now)
         IN  [chunk |-> script[next].data \o more.chunk, next |-> more.next]
    ELSE [chunk |-> <<>>, next |-> next]

\* sum(1 for line in lines if line.strip() == 'OK')
ok_lines(full_response) ==
    Cardinality({l \in split_crlf(full_response) :
                    strip(Slice(full_response, l.from, l.to)) = TOK_OK})

\* full_response = ''.join(response_parts) after the first k reads.
RECURSIVE join_parts(_, _)
join_parts(response_parts, k) ==
    IF k = 0 THEN <<>>
    ELSE join_parts(response_parts, k - 1) \o response_parts[k]

\* "Wait a bit more to capture complete response", then break.
grace_read(st, script, now, next, full_response) ==
    LET final == read_all(script, next, now + grace_ticks)
        chunk == SubSeq(full_response, Len(st.resp) + 1, Len(full_response))
    IN  [st EXCEPT !.now = now + grace_ticks, !.next = final.next,
                   !.resp = full_response \o final.chunk,
                   !.response_parts =
                       st.response_parts \o <<chunk>>
                           \o (IF final.chunk # <<>> THEN <<final.chunk>> ELSE <<>>),
                   !.reads = st.reads + 1 + (IF final.chunk # <<>> THEN 1 ELSE 0),
                   !.got_any_data = TRUE, !.stop = "success"]

\* The read loop of send_sms_pdu from the loop state st =
\* [now, next, resp, response_parts, last_data_time, got_any_data, reads,
\* stop]; resp is ''.join(response_parts).
RECURSIVE read_loop(_, _, _)
read_loop(st, script, max_wait) ==
    IF ~(st.now < max_wait) THEN [st EXCEPT !.stop = "deadline"]
    ELSE LET now == st.now + 1
             got == read_all(script, st.next, now)
         IN  IF got.chunk # <<>>
             THEN LET full_response == st.resp \o got.chunk
                      read == [st EXCEPT !.now = now, !.next = got.next,
                                         !.resp = full_response,
                                         !.response_parts =
                                             Append(st.response_parts, got.chunk),
                                         !.last_data_time = now,
                                         !.got_any_data = TRUE,
                                         !.reads = st.reads + 1]
                  IN  IF contains(full_response, TOK_CMGS)
                      THEN grace_read(st, script, now, got.next, full_response)
                      ELSE IF contains(full_response, TOK_OK)
                      THEN IF ok_lines(full_response) >= 1
                           THEN grace_read(st, script, now, got.next, full_response)
                           ELSE read_loop(read, script, max_wait)
                      ELSE IF contains(full_response, TOK_ERROR)
                              \/ contains(full_response, TOK_CMS_ERROR)
                      THEN [read EXCEPT !.stop = "error"]
                      ELSE read_loop(read, script, max_wait)
             ELSE IF st.got_any_data
                     /\ now - st.last_data_time >= idle_timeout * ticks_per_second
                  THEN [st EXCEPT !.now = now, !.stop = "idle"]
                  ELSE read_loop([st EXCEPT !.now = now], script, max_wait)

\* The writes of send_sms_pdu before its read loop, with the tick at which
\* each is made (time.sleep(0.3), 0.3 and 0.5 between them, ser.flushInput
\* after each sleep), and the tick at which the modem's prompt for AT+CMGS
\* reaches the serial buffer: prompt_delay ticks after the command was
\* written, -1 when the modem sends none.  Nothing is read before the PDU
\* is written.
send_sms_pdu_writes(pdu_hex, tpdu_len, prompt_delay) ==
    [writes |-> <<<<65, 84, 69, 48, 13>>,
                  <<65, 84, 43, 67, 77, 71, 70, 61, 48, 13>>,
                  <<65, 84, 43, 67, 77, 71, 83, 61>> \o int_str(tpdu_len) \o <<13>>,
                  pdu_hex \o <<26>>>>,
     write_ticks |-> <<0, 3, 3 + 3, 3 + 3 + 5>>,
     prompt_tick |-> IF prompt_delay < 0 THEN 0 - 1 ELSE 3 + 3 + prompt_delay]

\* send_sms_pdu: the final loop state; .resp is the returned response.
send_sms_pdu(script, timeout) ==
    read_loop([now |-> 0, next |-> 1, resp |-> <<>>, response_parts |-> <<>>,
               last_data_time |-> 0,
               got_any_data |-> FALSE, reads |-> 0, stop |-> "running"],
              script, timeout * ticks_per_second)

\* Mutant of send_sms_calls: a reference number per part.
send_sms_calls_ref_per_part(number, text, ref_num) ==
    LET calc == calculate_sms_parts(text)
        message_parts == IF calc.num_parts = 1 THEN <<text>>
                         ELSE split_message(text, calc.chars_per_part)
    IN  [i \in 1..Len(message_parts) |->
            [part |-> message_parts[i], ref_num |-> (ref_num + i - 1) % 256,
             part_num |-> i, total_parts |-> calc.num_parts,
             built |-> create_pdu(number, message_parts[i],
                                  (ref_num + i - 1) % 256, i, calc.num_parts)]]

\* The create_pdu calls of send_sms in order, each with its arguments and
\* its result: the single call when num_parts = 1, else one per element of
\* message_parts.
send_sms_calls(number, text, ref_num) ==
    LET calc == calculate_sms_parts(text)
    IN  IF calc.num_parts = 1
        THEN <<[part |-> text, ref_num |-> ref_num, part_num |-> 1,
                total_parts |-> 1,
                built |-> create_pdu(number, text, ref_num, 1, 1)]>>
        ELSE LET message_parts == split_message(text, calc.chars_per_part)
             IN  [i \in 1..Len(message_parts) |->
                    [part |-> message_parts[i], ref_num |-> ref_num,
                     part_num |-> i, total_parts |-> calc.num_parts,
                     built |-> create_pdu(number, message_parts[i], ref_num,
                                          i, calc.num_parts)]]

\* The number of send_sms_pdu calls send_sms makes for a text.
send_sms_count(text) ==
    LET calc == calculate_sms_parts(text)
    IN  IF calc.num_parts = 1 THEN 1
        ELSE Len(split_message(text, calc.chars_per_part))

\* send_sms, responses[i] being what send_sms_pdu returns for the i-th
\* PDU: [raised, resp]; raised when create_pdu raises ValueError on the
\* first call (the number is the same in every call).
send_sms(number, text, responses) ==
    IF ~encode_phone_number(number).ok
    THEN [raised |-> TRUE, resp |-> <<>>]
    ELSE [raised |-> FALSE,
          resp |-> IF calculate_sms_parts(text).num_parts = 1
                   THEN responses[1]
                   ELSE join_lf(responses, Len(responses))]

(***************************************************************************)
(* lib/modem_gsmlib.py                                                     *)
(***************************************************************************)

\* What gsmmodem's sendSms does on one call: it returns ("none") or raises
\* the named exception, text being str(e) (e.message for a CmsError).
LibraryOutcomes ==
    {[exc |-> "none", text |-> <<>>],
     [exc |-> "TimeoutException", text |-> <<>>],
     [exc |-> "CmsError", text |-> <<>>]}

\* ModemSMS.send_sms on a connected modem: (success, message).
modem_send_sms(lib) ==
    IF lib.exc = "none"
    THEN [success |-> TRUE,
          message |-> <<83, 77, 83, 32, 115, 101, 110, 116, 32, 115, 117, 99,
                        99, 101, 115, 115, 102, 117, 108, 108, 121>>]
    ELSE IF lib.exc = "TimeoutException"
    THEN [success |-> FALSE,      \* "Timeout sending SMS: " + str(e)
          message |-> <<84, 105, 109, 101, 111, 117, 116, 32, 115, 101, 110,
                        100, 105, 110, 103, 32, 83, 77, 83, 58, 32>> \o lib.text]
    ELSE IF lib.exc = "CmsError"
    THEN [success |-> FALSE,      \* "CMS Error 500: " + e.message
          message |-> <<67, 77, 83, 32, 69, 114, 114, 111, 114, 32, 53, 48,
                        48, 58, 32>> \o lib.text]
    ELSE IF lib.exc = "CommandError"
    THEN [success |-> FALSE,      \* "Command Error: " + str(e)
          message |-> <<67, 111, 109, 109, 97, 110, 100, 32, 69, 114, 114,
                        111, 114, 58, 32>> \o lib.text]
    ELSE [success |-> FALSE,      \* "Unexpected error: " + str(e)
          message |-> <<85, 110, 101, 120, 112, 101, 99, 116, 101, 100, 32,
                        101, 114, 114, 111, 114, 58, 32>> \o lib.text]

(***************************************************************************)
(* lib/database.py                                                         *)
(***************************************************************************)

\* LIMIT 5 of the SELECT.
batch_limit == 5

\* [:255], the length error texts are cut to.
error_limit == 255

\* [:50], the length of the response quoted in "Ambiguous modem response".
ambiguous_limit == 50

\* Mutant of classify_response: an empty response is taken as sent.
classify_response_silence_sent(resp, timeout) ==
    LET resp_clean  == upper(strip(resp))
        error_count == count(resp_clean, TOK_ERROR)
    IN  IF contains(resp_clean, TOK_CMGS) /\ error_count = 0
        THEN [is_success |-> TRUE, error_msg |-> <<>>]
        ELSE IF error_count > 0 \/ contains(resp_clean, TOK_CMS_ERROR)
        THEN [is_success |-> FALSE, error_msg |-> Slice(strip(resp), 0, error_limit)]
        ELSE IF contains(resp_clean, TOK_OK) /\ Len(resp_clean) > 2
        THEN [is_success |-> TRUE, error_msg |-> <<>>]
        ELSE IF Len(strip(resp)) = 0
        THEN [is_success |-> TRUE,  \* "No response from modem (timeout after {modem_timeout}s)"
              error_msg |-> <<78, 111, 32, 114, 101, 115, 112, 111, 110, 115,
                              101, 32, 102, 114, 111, 109, 32, 109, 111, 100,
                              101, 109, 32, 40, 116, 105, 109, 101, 111, 117,
                              116, 32, 97, 102, 116, 101, 114, 32>>
                            \o int_str(timeout) \o <<115, 41>>]
        ELSE IF Len(strip(resp)) > 5
        THEN [is_success |-> TRUE, error_msg |-> <<>>]
        ELSE [is_success |-> FALSE,  \* "Ambiguous modem response: " + resp.strip()[:50]
              error_msg |-> <<65, 109, 98, 105, 103, 117, 111, 117, 115, 32,
                              109, 111, 100, 101, 109, 32, 114, 101, 115, 112,
                              111, 110, 115, 101, 58, 32>>
                            \o Slice(strip(resp), 0, ambiguous_limit)]

\* Mutant of classify_response: +CMGS: is a success whatever else is there.
classify_response_cmgs_wins(resp, timeout) ==
    LET resp_clean  == upper(strip(resp))
        error_count == count(resp_clean, TOK_ERROR)
    IN  IF contains(resp_clean, TOK_CMGS)
        THEN [is_success |-> TRUE, error_msg |-> <<>>]
        ELSE IF error_count > 0 \/ contains(resp_clean, TOK_CMS_ERROR)
        THEN [is_success |-> FALSE, error_msg |-> Slice(strip(resp), 0, error_limit)]
        ELSE IF contains(resp_clean, TOK_OK) /\ Len(resp_clean) > 2
        THEN [is_success |-> TRUE, error_msg |-> <<>>]
        ELSE IF Len(strip(resp)) = 0
        THEN [is_success |-> FALSE,  \* "No response from modem (timeout after {modem_timeout}s)"
              error_msg |-> <<78, 111, 32, 114, 101, 115, 112, 111, 110, 115,
                              101, 32, 102, 114, 111, 109, 32, 109, 111, 100,
                              101, 109, 32, 40, 116, 105, 109, 101, 111, 117,
                              116, 32, 97, 102, 116, 101, 114, 32>>
                            \o int_str(timeout) \o <<115, 41>>]
        ELSE IF Len(strip(resp)) > 5
        THEN [is_success |-> TRUE, error_msg |-> <<>>]
        ELSE [is_success |-> FALSE,  \* "Ambiguous modem response: " + resp.strip()[:50]
              error_msg |-> <<65, 109, 98, 105, 103, 117, 111, 117, 115, 32,
                              109, 111, 100, 101, 109, 32, 114, 101, 115, 112,
                              111, 110, 115, 101, 58, 32>>
                            \o Slice(strip(resp), 0, ambiguous_limit)]

\* The classification of the response in process_pending_sms:
\* [is_success, error_msg], error_msg = <<>> standing for None.
classify_response(resp, timeout) ==
    LET resp_clean  == upper(strip(resp))
        error_count == count(resp_clean, TOK_ERROR)
    IN  IF contains(resp_clean, TOK_CMGS) /\ error_count = 0
        THEN [is_success |-> TRUE, error_msg |-> <<>>]
        ELSE IF error_count > 0 \/ contains(resp_clean, TOK_CMS_ERROR)
        THEN [is_success |-> FALSE, error_msg |-> Slice(strip(resp), 0, error_limit)]
        ELSE IF contains(resp_clean, TOK_OK) /\ Len(resp_clean) > 2
        THEN [is_success |-> TRUE, error_msg |-> <<>>]
        ELSE IF Len(strip(resp)) = 0
        THEN [is_success |-> FALSE,  \* "No response from modem (timeout after {modem_timeout}s)"
              error_msg |-> <<78, 111, 32, 114, 101, 115, 112, 111, 110, 115,
                              101, 32, 102, 114, 111, 109, 32, 109, 111, 100,
                              101, 109, 32, 40, 116, 105, 109, 101, 111, 117,
                              116, 32, 97, 102, 116, 101, 114, 32>>
                            \o int_str(timeout) \o <<115, 41>>]
        ELSE IF Len(strip(resp)) > 5
        THEN [is_success |-> TRUE, error_msg |-> <<>>]
        ELSE [is_success |-> FALSE,  \* "Ambiguous modem response: " + resp.strip()[:50]
              error_msg |-> <<65, 109, 98, 105, 103, 117, 111, 117, 115, 32,
                              109, 111, 100, 101, 109, 32, 114, 101, 115, 112,
                              111, 110, 115, 101, 58, 32>>
                            \o Slice(strip(resp), 0, ambiguous_limit)]

\* final_error = error_msg or resp.strip()[:255] or "Unknown error"
final_error(resp, error_msg) ==
    IF error_msg # <<>> THEN error_msg
    ELSE IF Slice(strip(resp), 0, error_limit) # <<>>
    THEN Slice(strip(resp), 0, error_limit)
    ELSE <<85, 110, 107, 110, 111, 119, 110, 32, 101, 114, 114, 111, 114>>

\* The ids of a set in ascending order (ORDER BY id).
RECURSIVE order_by_id(_)
order_by_id(ids) ==
    IF ids = {} THEN <<>>
    ELSE LET m == CHOOSE i \in ids : \A j \in ids : i <= j
         IN  <<m>> \o order_by_id(ids \ {m})

\* Mutant of select_pending: WHERE status='pending' AND attempts >= 0.
select_pending_any(view) ==
    LET ids == order_by_id({i \in DOMAIN view :
                               view[i].status = "pending" /\ view[i].attempts >= 0})
        n   == IF Len(ids) < batch_limit THEN Len(ids) ELSE batch_limit
    IN  [k \in 1..n |-> [id |-> ids[k]] @@ view[ids[k]]]

\* Mutant of select_pending: ORDER BY id DESC.
select_pending_descending(view) ==
    LET ids == order_by_id({i \in DOMAIN view :
                               view[i].status = "pending" /\ view[i].attempts > 0})
        n   == IF Len(ids) < batch_limit THEN Len(ids) ELSE batch_limit
    IN  [k \in 1..n |-> [id |-> ids[Len(ids) + 1 - k]] @@ view[ids[Len(ids) + 1 - k]]]

\* Mutant of select_pending: WHERE status <> 'sent'.
select_pending_unsent(view) ==
    LET ids == order_by_id({i \in DOMAIN view : view[i].status # "sent"})
        n   == IF Len(ids) < batch_limit THEN Len(ids) ELSE batch_limit
    IN  [k \in 1..n |-> [id |-> ids[k]] @@ view[ids[k]]]

\* SELECT * FROM outbox WHERE status='pending' AND attempts > 0
\* ORDER BY id LIMIT 5, on the connection's view of the table.
select_pending(view) ==
    LET ids == order_by_id({i \in DOMAIN view :
                               view[i].status = "pending" /\ view[i].attempts > 0})
        n   == IF Len(ids) < batch_limit THEN Len(ids) ELSE batch_limit
    IN  [k \in 1..n |-> [id |-> ids[k]] @@ view[ids[k]]]

\* Mutant of update_sent: the statement also spends an attempt.
update_sent_decrement(view, id) ==
    [view EXCEPT ![id].status = "sent", ![id].sent_at = "NOW",
                 ![id].updated_at = "NOW", ![id].attempts = @ - 1]

\* UPDATE outbox SET status='sent', sent_at=NOW(), updated_at=NOW() WHERE id=%s
update_sent(view, id) ==
    [view EXCEPT ![id].status = "sent", ![id].sent_at = "NOW", ![id].updated_at = "NOW"]

\* UPDATE outbox SET status='failed', attempts=%s, error_message=%s,
\* updated_at=NOW() WHERE id=%s
update_failed(view, id, new_attempts, error) ==
    [view EXCEPT ![id].status = "failed", ![id].attempts = new_attempts,
                 ![id].error_message = error, ![id].updated_at = "NOW"]

\* Mutant of update_retry: the UPDATE has no WHERE clause.
update_retry_all_rows(view, id, new_attempts, error) ==
    [i \in DOMAIN view |->
        [view[i] EXCEPT !.attempts = new_attempts, !.error_message = error,
                        !.updated_at = "NOW"]]

\* UPDATE outbox SET attempts=%s, error_message=%s, updated_at=NOW() WHERE id=%s
update_retry(view, id, new_attempts, error) ==
    [view EXCEPT ![id].attempts = new_attempts, ![id].error_message = error,
                 ![id].updated_at = "NOW"]

\* Mutant of failure_update: new_attempts < 0 where the code tests <= 0.
failure_update_never_failed(view, msg, error) ==
    LET new_attempts == msg.attempts - 1
    IN  IF new_attempts < 0
        THEN update_failed(view, msg.id, new_attempts, error)
        ELSE update_retry(view, msg.id, new_attempts, error)

\* Mutant of failure_update: the row is left pending when its attempts
\* run out.
failure_update_stays_pending(view, msg, error) ==
    update_retry(view, msg.id, msg.attempts - 1, error)

\* "SMS failed, decrement attempts" and "Exception occurred, decrement
\* attempts": the same statements in the else branch and in the except
\* branch of both functions.
failure_update(view, msg, error) ==
    LET new_attempts == msg.attempts - 1
    IN  IF new_attempts <= 0
        THEN update_failed(view, msg.id, new_attempts, error)
        ELSE update_retry(view, msg.id, new_attempts, error)

\* str(e) of a database error raised by cursor.execute or db.commit.
db_error_text ==
    <<50, 48, 49, 51, 58, 32, 76, 111, 115, 116, 32, 99, 111, 110, 110, 101,
      99, 116, 105, 111, 110>>

\* str(e) of the ValueError bytes.fromhex raises in encode_phone_number:
\* "non-hexadecimal number found in fromhex() arg".
value_error_text ==
    <<110, 111, 110, 45, 104, 101, 120, 97, 100, 101, 99, 105, 109, 97, 108,
      32, 110, 117, 109, 98, 101, 114, 32, 102, 111, 117, 110, 100, 32, 105,
      110, 32, 102, 114, 111, 109, 104, 101, 120, 40, 41, 32, 97, 114, 103>>

\* str(e) of a serial error raised by ser.write.
serial_error_text == <<119, 114, 105, 116, 101, 32, 102, 97, 105, 108, 101, 100>>

\* A timestamp column holds "NULL" or "NOW", the time of the statement
\* that set it.

\* The database statements that may raise while one message is handled:
\* upd1/com1 the UPDATE and the commit of the try block, upd2/com2 those of
\* the except block.  fault is the set of those that raise.
fault_possible(kind, fault) ==
    /\ fault \subseteq {"upd1", "com1", "upd2", "com2"}
    /\ ~({"upd1", "com1"} \subseteq fault)
    /\ ~({"upd2", "com2"} \subseteq fault)
    /\ kind = "exception" => fault \cap {"upd1", "com1"} = {}
    /\ kind # "exception" => (fault \cap {"upd2", "com2"} # {}
                                => fault \cap {"upd1", "com1"} # {})

\* The fault sets possible for an outcome with at most budget faults.
fault_sets(kind, budget) ==
    {f \in SUBSET {"upd1", "com1", "upd2", "com2"} :
        fault_possible(kind, f) /\ Cardinality(f) <= budget}

\* Mutant of handle_outcome: the except block stores str(e) whole.
handle_outcome_untruncated(view, committed, msg, kind, error, fault, keep) ==
    LET try_view    == IF kind = "success"
                       THEN update_sent(view, msg.id)
                       ELSE failure_update(view, msg, error)
        in_except   == kind = "exception" \/ "upd1" \in fault \/ "com1" \in fault
        except_from == IF kind = "exception" \/ "upd1" \in fault THEN view
                       ELSE IF keep THEN try_view ELSE committed
        exc_text    == IF kind = "exception" THEN error ELSE db_error_text
        except_view == failure_update(except_from, msg,
                                      exc_text)
    IN  IF ~in_except
        THEN [view |-> try_view, committed |-> try_view, raised |-> FALSE,
              path |-> "try"]
        ELSE IF "upd2" \in fault
        THEN [view |-> except_from, committed |-> committed, raised |-> TRUE,
              path |-> "raised"]
        ELSE IF "com2" \in fault
        THEN [view |-> IF keep THEN except_view ELSE committed,
              committed |-> committed, raised |-> TRUE, path |-> "raised"]
        ELSE [view |-> except_view, committed |-> except_view, raised |-> FALSE,
              path |-> "except"]

\* Mutant of handle_outcome: the try block does not commit.
handle_outcome_uncommitted(view, committed, msg, kind, error, fault, keep) ==
    LET try_view    == IF kind = "success"
                       THEN update_sent(view, msg.id)
                       ELSE failure_update(view, msg, error)
        in_except   == kind = "exception" \/ "upd1" \in fault \/ "com1" \in fault
        except_from == IF kind = "exception" \/ "upd1" \in fault THEN view
                       ELSE IF keep THEN try_view ELSE committed
        exc_text    == IF kind = "exception" THEN error ELSE db_error_text
        except_view == failure_update(except_from, msg,
                                      Slice(exc_text, 0, error_limit))
    IN  IF ~in_except
        THEN [view |-> try_view, committed |-> committed, raised |-> FALSE,
              path |-> "try"]
        ELSE IF "upd2" \in fault
        THEN [view |-> except_from, committed |-> committed, raised |-> TRUE,
              path |-> "raised"]
        ELSE IF "com2" \in fault
        THEN [view |-> IF keep THEN except_view ELSE committed,
              committed |-> committed, raised |-> TRUE, path |-> "raised"]
        ELSE [view |-> except_view, committed |-> except_view, raised |-> FALSE,
              path |-> "except"]

\* The body of the for loop after the send: the try block's UPDATE and
\* commit, and on an exception the except block's.  kind is "success",
\* "failure" (error = the text the else branch stores) or "exception" (the
\* send raised, error = str(e)).  view is the connection's view, committed
\* the table; keep says whether a failed commit leaves the transaction open
\* (else the server rolled it back).
\* The result is [view, committed, raised, path]; raised = an exception
\* leaves the function.
handle_outcome(view, committed, msg, kind, error, fault, keep) ==
    LET try_view    == IF kind = "success"
                       THEN update_sent(view, msg.id)
                       ELSE failure_update(view, msg, error)
        in_except   == kind = "exception" \/ "upd1" \in fault \/ "com1" \in fault
        except_from == IF kind = "exception" \/ "upd1" \in fault THEN view
                       ELSE IF keep THEN try_view ELSE committed
        exc_text    == IF kind = "exception" THEN error ELSE db_error_text
        except_view == failure_update(except_from, msg,
                                      Slice(exc_text, 0, error_limit))
    IN  IF ~in_except
        THEN [view |-> try_view, committed |-> try_view, raised |-> FALSE,
              path |-> "try"]
        ELSE IF "upd2" \in fault
        THEN [view |-> except_from, committed |-> committed, raised |-> TRUE,
              path |-> "raised"]
        ELSE IF "com2" \in fault
        THEN [view |-> IF keep THEN except_view ELSE committed,
              committed |-> committed, raised |-> TRUE, path |-> "raised"]
        ELSE [view |-> except_view, committed |-> except_view, raised |-> FALSE,
              path |-> "except"]

(***************************************************************************)
(* The daemon: poll cycles of process_pending_sms (fn = "v1", sending with *)
(* send_sms of lib/modem.py) or of process_pending_sms_v2 (fn = "v2",      *)
(* sending with ModemSMS.send_sms), one message per step.                  *)
(***************************************************************************)

\* Bounds of the model.
MaxRows == 2
MaxAttempts == 3
MaxDbFaults == 1

VARIABLES
    outbox,     \* the committed outbox table: id -> row
    txn,        \* the table as the daemon's connection sees it (its open
                \* transaction's uncommitted writes applied)
    pc,         \* "idle" between poll cycles, "batch" inside the for loop
    fn,         \* "v1" or "v2": the function the daemon runs each cycle
    messages,   \* the fetched rows the for loop has still to handle
    handled,    \* history: the ids sent in the current cycle, in order
    selected,   \* history: the ids the last SELECT returned, in order
    last,       \* history: what the message just handled went through
                \* (NoLast after the SELECT)
    sends,      \* history: id -> the number of send calls made for the row
    acked,      \* history: id -> which send call of the row first reported
                \* success (0: none has)
    start,      \* history: the outbox table as it was at the start
    faults,     \* history: the number of database errors raised so far
    op,         \* for the codec specifications: the function applied
    arg,        \* its input
    res         \* its result

vars == <<outbox, txn, pc, fn, messages, handled, selected, last, sends, acked, start,
          faults, op, arg, res>>

daemon_vars ==
    <<outbox, txn, pc, fn, messages, handled, selected, last, sends, acked, start,
      faults>>

codec_vars == <<op, arg, res>>

\* c repeated n times.
Rep(c, n) == [i \in 1..n |-> c]

\* The message text of row id: "Hi" (one part) in the odd rows, 71 times
\* U+4E2D (two UCS2 parts) in the even ones.
MsgText(id) == IF id % 2 = 1 THEN <<72, 105>> ELSE Rep(20013, 71)

\* The phone number of the rows: "+1234567".
MsgPhone == <<43, 49, 50, 51, 52, 53, 54, 55>>

\* What the modem may do after one PDU: confirm, report an error, or stay
\* silent.
ModemScripts ==
    {<<[at |-> 0, data |-> <<13, 10, 43, 67, 77, 71, 83, 58, 32, 53, 13, 10,
                             13, 10, 79, 75, 13, 10>>]>>,
     <<[at |-> 0, data |-> <<13, 10, 43, 67, 77, 83, 32, 69, 82, 82, 79, 82,
                             58, 32, 53, 48, 48, 13, 10>>]>>,
     <<>>}

\* send_sms_pdu with the default timeout on each of these scripts.
modem_responses == [s \in ModemScripts |-> send_sms_pdu(s, modem_timeout).resp]

\* A row as the upstream insert leaves it, or as an earlier run left it.
NewRow(text, status, attempts) ==
    [phone_number |-> MsgPhone, recipient |-> <<66, 111, 98>>,
     message |-> text, status |-> status, attempts |-> attempts,
     error_message |-> <<>>, sent_at |-> "NULL", updated_at |-> "NULL"]

InitRows(id) ==
    {NewRow(MsgText(id), "pending", a) : a \in 0..MaxAttempts}
        \cup {NewRow(MsgText(id), "failed", 0)}

NoLast ==
    [id |-> 0, attempts_left |-> 0, kind |-> "none", error |-> <<>>,
     responses |-> <<>>, fault |-> {}, path |-> "none"]

DaemonInit ==
    /\ outbox \in {o \in [1..MaxRows -> UNION {InitRows(i) : i \in 1..MaxRows}] :
                        \A i \in 1..MaxRows : o[i] \in InitRows(i)}
    /\ txn = outbox
    /\ pc = "idle"
    /\ fn \in {"v1", "v2"}
    /\ messages = <<>>
    /\ handled = <<>>
    /\ selected = <<>>
    /\ last = NoLast
    /\ sends = [i \in 1..MaxRows |-> 0]
    /\ acked = [i \in 1..MaxRows |-> 0]
    /\ start = outbox
    /\ faults = 0

CodecIdle == op = "daemon" /\ arg = <<>> /\ res = <<>>

Init == DaemonInit /\ CodecIdle

\* The head of process_pending_sms and process_pending_sms_v2: ping,
\* rollback, new cursor, SELECT.  f names the statement that raises:
\* "ping" (no rollback, the cursor is still made), "cursor" (ping and the
\* cursor both fail: return), "select" (the SELECT fails: return).
Poll ==
    /\ pc = "idle"
    /\ \E f \in {"none", "ping", "cursor", "select"} :
        /\ f # "none" => faults < MaxDbFaults
        /\ LET view == IF f \in {"ping", "cursor"} THEN txn ELSE outbox
               rows == IF f \in {"cursor", "select"} THEN <<>>
                       ELSE select_pending(view)
           IN  /\ txn' = view
               /\ messages' = rows
               /\ selected' = [k \in DOMAIN rows |-> rows[k].id]
               /\ pc' = IF rows = <<>> THEN "idle" ELSE "batch"
        /\ faults' = faults + (IF f = "none" THEN 0 ELSE 1)
    /\ handled' = <<>>
    /\ last' = NoLast
    /\ UNCHANGED <<outbox, fn, sends, acked, start, codec_vars>>

\* The rest of one iteration of the for loop, after the send call.
Finish(msg, kind, error, responses, fault, keep) ==
    LET h    == handle_outcome(txn, outbox, msg, kind, error, fault, keep)
        rest == IF h.raised THEN <<>> ELSE Tail(messages)
    IN  /\ txn' = h.view
        /\ outbox' = h.committed
        /\ messages' = rest
        /\ pc' = IF rest = <<>> THEN "idle" ELSE "batch"
        /\ handled' = Append(handled, msg.id)
        /\ last' = [id |-> msg.id, attempts_left |-> msg.attempts,
                    kind |-> kind, error |-> error, responses |-> responses,
                    fault |-> fault, path |-> h.path]
        /\ sends' = [sends EXCEPT ![msg.id] = @ + 1]
        /\ acked' = IF kind = "success" /\ acked[msg.id] = 0
                  THEN [acked EXCEPT ![msg.id] = sends[msg.id] + 1]
                  ELSE acked
        /\ faults' = faults + Cardinality(fault)
        /\ UNCHANGED <<fn, selected, start, codec_vars>>

\* Whether a failed commit leaves the transaction open: a choice only when
\* a commit fails.
keep_choices(fault) ==
    IF fault \cap {"com1", "com2"} # {} THEN {TRUE, FALSE} ELSE {FALSE}

\* One iteration of the for loop of process_pending_sms_v2.
ProcessV2 ==
    /\ pc = "batch"
    /\ fn = "v2"
    /\ \E lib \in LibraryOutcomes :
        LET r    == modem_send_sms(lib)
            kind == IF r.success THEN "success" ELSE "failure"
        IN  \E fault \in fault_sets(kind, MaxDbFaults - faults) :
                \E keep \in keep_choices(fault) :
                    Finish(Head(messages), kind,
                           Slice(r.message, 0, error_limit), <<>>, fault, keep)

\* One iteration of the for loop of process_pending_sms with
\* send_sms_func = send_sms of lib/modem.py, the modem following
\* scripts[i] on the i-th PDU.
ProcessV1 ==
    /\ pc = "batch"
    /\ fn = "v1"
    /\ LET msg == Head(messages)
           n   == send_sms_count(msg.message)
       IN  \E scripts \in [1..n -> ModemScripts] :
            LET responses == [i \in 1..n |-> modem_responses[scripts[i]]]
                s     == send_sms(msg.phone_number, msg.message, responses)
                c     == classify_response(s.resp, modem_timeout)
                kind  == IF s.raised THEN "exception"
                         ELSE IF c.is_success THEN "success" ELSE "failure"
                error == IF s.raised THEN value_error_text
                         ELSE final_error(s.resp, c.error_msg)
            IN  \E fault \in fault_sets(kind, MaxDbFaults - faults) :
                    \E keep \in keep_choices(fault) :
                        Finish(msg, kind, error,
                               IF s.raised THEN <<>> ELSE responses, fault, keep)

\* str(e) of the exceptions raised inside send_sms: the serial error, and
\* one whose text is longer than the error_message column takes.
SendExceptionTexts == {serial_error_text, serial_error_text \o Rep(46, error_limit)}

\* The same iteration when ser.write raises inside send_sms.
ProcessV1SerialError ==
    /\ pc = "batch"
    /\ fn = "v1"
    /\ \E text \in SendExceptionTexts :
        \E fault \in fault_sets("exception", MaxDbFaults - faults) :
            \E keep \in keep_choices(fault) :
                Finish(Head(messages), "exception", text, <<>>, fault, keep)

Next == Poll \/ ProcessV1 \/ ProcessV1SerialError \/ ProcessV2

Spec == Init /\ [][Next]_vars

(***************************************************************************)
(* Properties of the outbox transitions.                                   *)
(***************************************************************************)

\* The row the message just handled was read from, as committed now.
LastRow == outbox[last.id]

\* C1: a row selected with attempts = k > 0 whose send fails (the send
\* returned a failure or raised, and the statements writing it down went
\* through) has attempts = k - 1 and the failure detail as error_message,
\* status pending when k - 1 > 0 and failed with attempts 0 when k - 1 = 0;
\* no row is sent twice in one poll cycle; and, with no database error, a
\* row that started pending with a attempts and was never sent successfully
\* has attempts = a - (sends made for it), so it is failed exactly after a
\* sends in a different poll cycles (3 -> 2 -> 1 -> 0 for a = 3).
C1_FailureTransition ==
    /\ (last.kind \in {"failure", "exception"} /\ last.fault = {}) =>
          /\ last.attempts_left > 0
          /\ LastRow.attempts = last.attempts_left - 1
          /\ LastRow.error_message = Slice(last.error, 0, error_limit)
          /\ LastRow.error_message # <<>>
          /\ last.attempts_left - 1 > 0 => LastRow.status = "pending"
          /\ last.attempts_left - 1 = 0 =>
                LastRow.status = "failed" /\ LastRow.attempts = 0
    /\ \A i, j \in DOMAIN handled : i # j => handled[i] # handled[j]
    /\ \A id \in DOMAIN outbox :
          (faults = 0 /\ start[id].status = "pending"
                /\ outbox[id].status # "sent") =>
             /\ outbox[id].attempts = start[id].attempts - sends[id]
             /\ outbox[id].status = "failed" <=>
                    (start[id].attempts > 0 /\ sends[id] = start[id].attempts)

\* A row that started with attempts = 3 has just failed for the third time
\* and is now failed with attempts 0.
C1_Witness ==
    /\ last.kind = "failure"
    /\ last.path = "try"
    /\ faults = 0
    /\ start[last.id].status = "pending"
    /\ start[last.id].attempts = 3
    /\ sends[last.id] = 3
    /\ last.attempts_left = 1
    /\ LastRow.status = "failed"
    /\ LastRow.attempts = 0

\* C2: a pending row whose send succeeds (and whose UPDATE and commit go
\* through) is, as soon as it is handled, sent, with sent_at set and
\* attempts as it was when the row was selected.
C2_SuccessTransition ==
    (last.kind = "success" /\ last.path = "try") =>
        /\ LastRow.status = "sent"
        /\ LastRow.sent_at = "NOW"
        /\ LastRow.attempts = last.attempts_left
        /\ last.attempts_left > 0

\* A row that had already failed once is sent at its second attempt.
C2_Witness ==
    /\ last.kind = "success"
    /\ last.path = "try"
    /\ start[last.id].attempts = 3
    /\ last.attempts_left = 2
    /\ LastRow.status = "sent"
    /\ LastRow.attempts = 2

\* C3: process_pending_sms with send_sms of lib/modem.py marks a multipart
\* message sent only if the response to every one of its parts is a
\* success by the classification the function applies to a response.
C3_SentOnlyIfEveryPartSucceeded ==
    (fn = "v1" /\ last.kind = "success" /\ last.path = "try"
        /\ Len(last.responses) > 1) =>
        \A i \in DOMAIN last.responses :
            classify_response(last.responses[i], modem_timeout).is_success

\* A two-part message is marked sent although its second part got no
\* response.
C3_Witness ==
    /\ fn = "v1"
    /\ last.kind = "success"
    /\ last.path = "try"
    /\ Len(last.responses) = 2
    /\ strip(last.responses[2]) = <<>>
    /\ LastRow.status = "sent"

\* C10: every failed row has attempts = 0 and no row has negative attempts,
\* in the table and in the daemon's view of it.
C10_FailedHasNoAttempts ==
    \A id \in DOMAIN outbox :
        /\ outbox[id].attempts >= 0
        /\ txn[id].attempts >= 0
        /\ outbox[id].status = "failed" => outbox[id].attempts = 0
        /\ txn[id].status = "failed" => txn[id].attempts = 0

\* A row that started pending has become failed after a send that raised.
C10_Witness ==
    /\ last.kind = "exception"
    /\ last.path = "except"
    /\ start[last.id].status = "pending"
    /\ LastRow.status = "failed"
    /\ LastRow.attempts = 0

(***************************************************************************)
(* The pure functions of lib/encoding.py, lib/pdu.py and send_sms's PDU    *)
(* building, each applied once to an input drawn at the start.  The daemon *)
(* does not run in these specifications.                                   *)
(***************************************************************************)

\* Bounds of the inputs.
MaxGsmLen == 3
MaxSlack == 1
MaxDigits == 4

DaemonOff ==
    /\ outbox = <<>>
    /\ txn = <<>>
    /\ pc = "off"
    /\ fn = "none"
    /\ messages = <<>>
    /\ handled = <<>>
    /\ selected = <<>>
    /\ last = NoLast
    /\ sends = <<>>
    /\ acked = <<>>
    /\ start = <<>>
    /\ faults = 0

\* All sequences over alphabet of length at most n.
Strings(alphabet, n) == UNION {[1..k -> alphabet] : k \in 0..n}

\* Characters of the basic alphabet (@ A B = and U+00C6), of the extended
\* set of encode_gsm7 ([ and the euro sign) and the form feed.
Gsm7Chars == {64, 65, 66, 61, 198, 91, 8364, 12}

InitGsm7 ==
    /\ DaemonOff
    /\ op = "input"
    /\ arg \in Strings(Gsm7Chars, MaxGsmLen)
    /\ res = <<>>

EncodeGsm7 ==
    /\ op = "input"
    /\ op' = "encode_gsm7"
    /\ res' = encode_gsm7(arg)
    /\ UNCHANGED <<arg, daemon_vars>>

NextGsm7 == EncodeGsm7

SpecGsm7 == InitGsm7 /\ [][NextGsm7]_vars

\* n letters a, b, c, ... (weight 1 each), the i-th being a + (i mod 26).
Letters(n) == [i \in 1..n |-> 97 + (i % 26)]

\* The lengths at which calculate_sms_parts changes its answer.
Thresholds == {0, 67, 70, 134, 153, 160, 306}

HeadLens == {t + d : t \in Thresholds, d \in (0 - MaxSlack)..MaxSlack} \cap Nat

\* Nothing, [ and the euro sign (extended), form feed, U+4E2D (not GSM7).
Mids == {<<>>, <<91>>, <<8364>>, <<12>>, <<20013>>}

TailLens == {0, 152}

\* A text one character longer than 255 UCS2 parts hold.
LongText == Rep(20013, 255 * 67 + 1)

PartTexts ==
    {Letters(h) \o m \o Letters(t) : h \in HeadLens, m \in Mids, t \in TailLens}
        \cup {LongText}

\* Values random.randint(0, 255) may return.
RefNums == {0, 173, 255}

InitParts ==
    /\ DaemonOff
    /\ op = "input"
    /\ arg \in PartTexts
    /\ res = <<>>

CalculateSmsParts ==
    /\ op = "input"
    /\ op' = "calculate_sms_parts"
    /\ res' = calculate_sms_parts(arg)
    /\ UNCHANGED <<arg, daemon_vars>>

\* split_message as send_sms calls it.
SplitMessage ==
    /\ op = "input"
    /\ op' = "split_message"
    /\ res' = split_message(arg, calculate_sms_parts(arg).chars_per_part)
    /\ UNCHANGED <<arg, daemon_vars>>

\* Values of chars_per_part: the smallest two, and the three
\* calculate_sms_parts returns.
Budgets == {2, 3, 67, 153, 160}

\* split_message called with a budget of the caller's choice.
SplitWithBudget ==
    /\ op = "input"
    /\ \E chars_per_part \in Budgets :
        /\ op' = "split_budget"
        /\ res' = [chars_per_part |-> chars_per_part,
                   parts |-> split_message(arg, chars_per_part)]
    /\ UNCHANGED <<arg, daemon_vars>>

\* The PDUs send_sms builds for number MsgPhone, random.randint returning
\* ref_num.
SendSms ==
    /\ op = "input"
    /\ \E ref_num \in RefNums :
        /\ op' = "send_sms"
        /\ res' = send_sms_calls(MsgPhone, arg, ref_num)
    /\ UNCHANGED <<arg, daemon_vars>>

IsGsm7Compatible ==
    /\ op = "input"
    /\ op' = "is_gsm7_compatible"
    /\ res' = is_gsm7_compatible(arg)
    /\ UNCHANGED <<arg, daemon_vars>>

NextParts ==
    CalculateSmsParts \/ SplitMessage \/ SendSms \/ IsGsm7Compatible
        \/ SplitWithBudget

SpecParts == InitParts /\ [][NextParts]_vars

\* The digits dial strings are drawn from: 0, 1, 9.
PhoneDigits == {48, 49, 57}

\* An optional + followed by digits, and the two numbers of the examples.
DialStrings ==
    {p \o d : p \in {<<>>, <<43>>}, d \in Strings(PhoneDigits, MaxDigits)}
        \cup {MsgPhone, Tail(MsgPhone)}

InitPhone ==
    /\ DaemonOff
    /\ op = "input"
    /\ arg \in DialStrings
    /\ res = <<>>

EncodePhoneNumber ==
    /\ op = "input"
    /\ op' = "encode_phone_number"
    /\ res' = encode_phone_number(arg)
    /\ UNCHANGED <<arg, daemon_vars>>

\* What a caller may put between the digits of a dial string: nothing, a
\* space, a dash.
Separators == {<<>>, <<32>>, <<45>>}

\* create_pdu for a single-part "Hi" to the dial string arg written with
\* separator sep after its first k characters.
CreatePdu ==
    /\ op = "input"
    /\ \E sep \in Separators : \E k \in 0..Len(arg) :
        LET phone == SubSeq(arg, 1, k) \o sep \o SubSeq(arg, k + 1, Len(arg))
        IN  /\ op' = "create_pdu"
            /\ res' = [phone |-> phone,
                       built |-> create_pdu(phone, <<72, 105>>, 0, 1, 1)]
    /\ UNCHANGED <<arg, daemon_vars>>

\* encode_phone_number for the dial string arg written with a separator
\* or a + after its first k characters.
EncodeDialString ==
    /\ op = "input"
    /\ \E sep \in Separators \cup {<<43>>} : \E k \in 0..Len(arg) :
        LET phone == SubSeq(arg, 1, k) \o sep \o SubSeq(arg, k + 1, Len(arg))
        IN  /\ op' = "encode_dial_string"
            /\ res' = [phone |-> phone, encoded |-> encode_phone_number(phone)]
    /\ UNCHANGED <<arg, daemon_vars>>

NextPhone == EncodePhoneNumber \/ CreatePdu \/ EncodeDialString

SpecPhone == InitPhone /\ [][NextPhone]_vars


(***************************************************************************)
(* send_sms_pdu's read loop and the classification of its response in      *)
(* process_pending_sms, applied to what a modem may send after one PDU.    *)
(***************************************************************************)

\* The most events (arrivals of data) in a script.
MaxEvents == 2

\* What one arrival may hold: the confirmation, +CMGS: alone, OK alone,
\* the two error forms, +CMGS: followed by ERROR, OK inside a word with and
\* without ERROR, the prompt, an unsolicited report.
ModemChunks ==
    {<<13, 10, 43, 67, 77, 71, 83, 58, 32, 53, 13, 10, 13, 10, 79, 75, 13, 10>>,
     <<13, 10, 43, 67, 77, 71, 83, 58, 32, 53, 13, 10>>,
     <<13, 10, 79, 75, 13, 10>>,
     <<13, 10, 43, 67, 77, 83, 32, 69, 82, 82, 79, 82, 58, 32, 53, 48, 48, 13, 10>>,
     <<13, 10, 69, 82, 82, 79, 82, 13, 10>>,
     <<13, 10, 43, 67, 77, 71, 83, 58, 32, 53, 13, 10, 13, 10, 69, 82, 82, 79, 82, 13, 10>>,
     <<13, 10, 84, 79, 75, 69, 78, 32, 69, 82, 82, 79, 82, 13, 10>>,
     <<13, 10, 84, 79, 75, 69, 78, 13, 10>>,
     <<13, 10, 62, 32>>,
     <<13, 10, 94, 82, 83, 83, 73, 58, 32, 53, 13, 10>>}

\* When data may arrive, in ticks after start_time: at once, within the
\* grace sleep of the first read, later, after the idle window of data
\* that came at once, after the deadline.
ArrivalTicks == {0, 3, 12, 25, 31}

\* The scripts of at most MaxEvents arrivals, at ascending times.
WideModemScripts ==
    UNION {{s \in [1..n -> [at : ArrivalTicks, data : ModemChunks]] :
               \A i \in 1..(n - 1) : s[i].at < s[i + 1].at} : n \in 0..MaxEvents}

InitModem ==
    /\ DaemonOff
    /\ op = "input"
    /\ arg \in WideModemScripts
    /\ res = <<>>

SendSmsPdu ==
    /\ op = "input"
    /\ op' = "send_sms_pdu"
    /\ res' = send_sms_pdu(arg, modem_timeout)
    /\ UNCHANGED <<arg, daemon_vars>>

\* What process_pending_sms makes of the response of a single-part send:
\* res keeps the loop's final state and adds is_success, error_msg and
\* final_error.
ClassifyResponse ==
    /\ op = "send_sms_pdu"
    /\ op' = "classify_response"
    /\ LET c == classify_response(res.resp, modem_timeout)
       IN  res' = [loop |-> res, is_success |-> c.is_success,
                   error_msg |-> c.error_msg,
                   final_error |-> IF c.is_success THEN <<>>
                                   ELSE final_error(res.resp, c.error_msg)]
    /\ UNCHANGED <<arg, daemon_vars>>

\* How long after AT+CMGS the modem's prompt arrives, in ticks: promptly,
\* after the 0.5 s the function sleeps, or never (-1).
PromptDelays == {1, 8, 0 - 1}

\* The writes of send_sms_pdu for the PDU of "Hi" to MsgPhone.
WriteCommands ==
    /\ op = "input"
    /\ \E prompt_delay \in PromptDelays :
        LET built == create_pdu(MsgPhone, <<72, 105>>, 0, 1, 1)
        IN  /\ op' = "write_commands"
            /\ res' = [pdu_hex |-> built.pdu_hex, tpdu_len |-> built.tpdu_len]
                          @@ send_sms_pdu_writes(built.pdu_hex, built.tpdu_len,
                                                 prompt_delay)
    /\ UNCHANGED <<arg, daemon_vars>>

NextModem == SendSmsPdu \/ ClassifyResponse \/ WriteCommands

SpecModem == InitModem /\ [][NextModem]_vars

\* send_sms_pdu with the default timeout when nothing arrives before the
\* deadline: no arrival at all, or one after it.
silent_modem_results ==
    [s \in {w \in WideModemScripts : \A i \in DOMAIN w : w[i].at > modem_timeout * ticks_per_second}
        |-> send_sms_pdu(s, modem_timeout)]
(***************************************************************************)
(* Properties of the codecs.                                               *)
(***************************************************************************)

\* The extended set of the specification: ^ { } \ [ ~ ] | euro sign and
\* form feed.
ref_extended_set == gsm7_extended_set \cup {12}

\* Bit p (from 0) of the octets read least-significant bit first, 0 past
\* the end.
ref_bit(octets, p) ==
    IF p \div 8 + 1 > Len(octets) THEN 0
    ELSE (octets[p \div 8 + 1] \div Pow2(p % 8)) % 2

\* The n septets unpacked from octets, least-significant bit first.
ref_unpack(octets, n) ==
    [i \in 1..n |->
        ref_bit(octets, 7 * (i - 1)) + 2 * ref_bit(octets, 7 * (i - 1) + 1)
          + 4 * ref_bit(octets, 7 * (i - 1) + 2) + 8 * ref_bit(octets, 7 * (i - 1) + 3)
          + 16 * ref_bit(octets, 7 * (i - 1) + 4) + 32 * ref_bit(octets, 7 * (i - 1) + 5)
          + 64 * ref_bit(octets, 7 * (i - 1) + 6)]

\* The character an escape pair ESC, code stands for (0 when there is none).
ref_extended_char(code) ==
    IF \E c \in DOMAIN gsm7_extended_codes : gsm7_extended_codes[c] = code
    THEN CHOOSE c \in DOMAIN gsm7_extended_codes : gsm7_extended_codes[c] = code
    ELSE 0

\* The text septets[i..] stand for: ESC pairs by the table of the extended
\* set, other septets by their position in the basic table.
RECURSIVE ref_decode(_, _)
ref_decode(septets, i) ==
    IF i > Len(septets) THEN <<>>
    ELSE IF septets[i] = 27 /\ i < Len(septets)
    THEN <<ref_extended_char(septets[i + 1])>> \o ref_decode(septets, i + 2)
    ELSE <<IF septets[i] + 1 <= Len(gsm7_basic) THEN gsm7_basic[septets[i] + 1] ELSE 0>>
            \o ref_decode(septets, i + 1)

\* The number of septets of a text: 2 for a character of the extended set.
ref_septet_count(text) ==
    Len(text) + Cardinality({i \in 1..Len(text) : text[i] \in ref_extended_set})

\* C4: unpacking the octets of encode_gsm7(text) least-significant bit
\* first and decoding the septets with the same tables gives text back.
C4_RoundTrip ==
    op = "encode_gsm7" =>
        ref_decode(ref_unpack(res, ref_septet_count(arg)), 1) = arg

\* "AB" (septets 0x40, 0x41 in the table of encode_gsm7) has been encoded
\* to 40 82 01, not to the octets C0 20 that unpack to it.
C4_Witness ==
    /\ op = "encode_gsm7"
    /\ arg = <<65, 66>>
    /\ res = <<64, 130, 1>>

\* The UDH of the PDU built by one create_pdu call of send_sms for
\* MsgPhone: the bytes IEI, IEDL, reference, total, part number that
\* follow the UDL and UDHL bytes.
UdhAt(call, k) ==
    call.built.pdu[5 + Len(encode_phone_number(MsgPhone).bytes) + 2 + 2 + k]

UdhRef(call) == UdhAt(call, 3)
UdhTotal(call) == UdhAt(call, 4)
UdhPart(call) == UdhAt(call, 5)

\* C5: for a message sent as multipart, the part numbers in the UDHs are
\* 1..N in send order, N being num_parts of calculate_sms_parts, and none
\* exceeds the total the UDH declares.
C5_PartNumbers ==
    (op = "send_sms" /\ calculate_sms_parts(arg).num_parts > 1) =>
        /\ Len(res) = calculate_sms_parts(arg).num_parts
        /\ \A i \in DOMAIN res :
              UdhPart(res[i]) = i /\ UdhPart(res[i]) <= UdhTotal(res[i])

\* 152 letters, [, 152 letters: num_parts is 2 and a third PDU is built,
\* numbered 3 of 2.
C5_Witness ==
    /\ op = "send_sms"
    /\ arg = Letters(152) \o <<91>> \o Letters(152)
    /\ calculate_sms_parts(arg).num_parts = 2
    /\ Len(res) = 3
    /\ UdhPart(res[3]) = 3
    /\ UdhTotal(res[3]) = 2

\* C6: all PDUs of one send_sms call for a multipart message have the same
\* reference byte, the one drawn before the first part is built and in
\* 0..255, and the same total_parts byte.
C6_SharedReference ==
    (op = "send_sms" /\ Len(res) > 1) =>
        /\ \A i \in DOMAIN res :
              /\ res[i].built.pdu[2] = 65
              /\ UdhRef(res[i]) \in 0..255
              /\ UdhRef(res[i]) = res[1].ref_num
        /\ \A i, j \in DOMAIN res :
              /\ UdhRef(res[i]) = UdhRef(res[j])
              /\ UdhTotal(res[i]) = UdhTotal(res[j])

\* Three PDUs with reference 255.
C6_Witness ==
    /\ op = "send_sms"
    /\ Len(res) = 3
    /\ \A i \in 1..3 : UdhRef(res[i]) = 255 /\ UdhTotal(res[i]) = 3

\* ceil(a / b) for b > 0.
ref_ceil_div(a, b) == CHOOSE k \in 0..a : b * (k - 1) < a /\ a <= b * k

\* The capacity rule of the specification.
ref_capacity(text) ==
    IF \A i \in 1..Len(text) : text[i] \in gsm7_basic_set \cup ref_extended_set
    THEN LET w == Len(text)
                    + Cardinality({i \in 1..Len(text) : text[i] \in ref_extended_set})
         IN  IF w <= 160
             THEN [num_parts |-> 1, chars_per_part |-> 160, encoding |-> "GSM7"]
             ELSE [num_parts |-> ref_ceil_div(w, 153), chars_per_part |-> 153,
                   encoding |-> "GSM7"]
    ELSE IF Len(text) <= 70
         THEN [num_parts |-> 1, chars_per_part |-> 70, encoding |-> "UCS2"]
         ELSE [num_parts |-> ref_ceil_div(Len(text), 67), chars_per_part |-> 67,
               encoding |-> "UCS2"]

C8_PlainSplit ==
    (op = "send_sms" /\ Len(arg) > 160
        /\ \A i \in 1..Len(arg) : arg[i] \in gsm7_basic_set) =>
        LET n == Len(arg)
            N == ref_ceil_div(n, 153)
        IN  /\ Len(res) = N
            /\ \A k \in DOMAIN res :
                  /\ res[k].part =
                        SubSeq(arg, (k - 1) * 153 + 1,
                               IF k * 153 < n THEN k * 153 ELSE n)
                  /\ res[k].built.pdu[2] = 65
                  /\ UdhPart(res[k]) = k
                  /\ UdhTotal(res[k]) = N
                  /\ UdhRef(res[k]) = UdhRef(res[1])

\* 161 letters: two PDUs, of 153 and of 8 characters.
C8_Witness ==
    /\ op = "send_sms"
    /\ arg = Letters(161)
    /\ Len(res) = 2
    /\ res[1].part = SubSeq(arg, 1, 153)
    /\ res[2].part = SubSeq(arg, 154, 161)
    /\ UdhTotal(res[1]) = 2
    /\ UdhTotal(res[2]) = 2
    /\ UdhRef(res[1]) = UdhRef(res[2])

\* C9: for a dial string of an optional + and digits, the type of number
\* is 0x91 with the + and 0x81 without; the digits, with one F appended
\* when their number is odd, are emitted pair by pair, the two digits of a
\* pair swapped.
C9_PhoneEncoding ==
    op = "encode_phone_number" =>
        LET plus   == Len(arg) > 0 /\ arg[1] = 43
            digits == IF plus THEN Tail(arg) ELSE arg
            n      == Len(digits)
            nibble(i) == IF i <= n THEN digits[i] - 48 ELSE 15
        IN  /\ res.ok
            /\ res.ton = IF plus THEN 145 ELSE 129
            /\ Len(res.bytes) = (n + 1) \div 2
            /\ \A k \in 1..Len(res.bytes) :
                  res.bytes[k] = 16 * nibble(2 * k) + nibble(2 * k - 1)
            /\ n % 2 = 1 => res.bytes[Len(res.bytes)] \div 16 = 15
            /\ (n % 2 = 0 /\ n > 0) => res.bytes[Len(res.bytes)] \div 16 # 15

\* +1234567 gives 0x91 and 21 43 65 F7.
C9_Witness ==
    /\ op = "encode_phone_number"
    /\ arg = MsgPhone
    /\ res.ton = 145
    /\ res.bytes = <<33, 67, 101, 247>>

(***************************************************************************)
(* Further properties of the outbox transitions.                           *)
(***************************************************************************)

\* The WHERE clause of the SELECT on one row.
Selectable(row) == row.status = "pending" /\ row.attempts > 0

BatchRows == 7

\* A row of this table: waiting for its one attempt, or not selectable.
BatchInitRows ==
    {NewRow(MsgText(1), "pending", 1), NewRow(MsgText(1), "pending", 0),
     NewRow(MsgText(1), "failed", 0)}

InitBatch ==
    /\ outbox \in [1..BatchRows -> BatchInitRows]
    /\ txn = outbox
    /\ pc = "idle"
    /\ fn = "v2"
    /\ messages = <<>>
    /\ handled = <<>>
    /\ selected = <<>>
    /\ last = NoLast
    /\ sends = [i \in 1..BatchRows |-> 0]
    /\ acked = [i \in 1..BatchRows |-> 0]
    /\ start = outbox
    /\ faults = MaxDbFaults
    /\ CodecIdle

\* KeyboardInterrupt raised in time.sleep(POLL_INTERVAL), between two poll
\* cycles: the finally block closes the connection and main returns.
ShutdownIdle ==
    /\ pc = "idle"
    /\ pc' = "exited"
    /\ txn' = outbox
    /\ UNCHANGED <<outbox, fn, messages, handled, selected, last, sends, acked,
                   start, faults, codec_vars>>

\* KeyboardInterrupt raised while modem.send_sms is sending the head
\* message: it is no Exception, so neither except block of the loop body
\* nor the one of main's loop catches it; the row is not written, the
\* finally block closes the connection and main returns.
KeyboardInterruptInSend ==
    /\ pc = "batch"
    /\ LET msg == Head(messages)
       IN  /\ handled' = Append(handled, msg.id)
           /\ sends' = [sends EXCEPT ![msg.id] = @ + 1]
           /\ last' = [id |-> msg.id, attempts_left |-> msg.attempts,
                       kind |-> "interrupted", error |-> <<>>,
                       responses |-> <<>>, fault |-> {}, path |-> "interrupted"]
    /\ pc' = "exited"
    /\ messages' = <<>>
    /\ txn' = outbox
    /\ UNCHANGED <<outbox, fn, selected, acked, start, faults, codec_vars>>

NextBatch == Poll \/ ProcessV2 \/ ShutdownIdle \/ KeyboardInterruptInSend

SpecBatch == InitBatch /\ [][NextBatch]_vars

\* The daemon of sms_sender.py left to run: main's while True loop calls
\* process_pending_sms_v2 again after every cycle, the database answers
\* every statement and every send call returns.  The first batch_limit
\* rows have two attempts, the next has one, the others failed in an
\* earlier run.
InitLive ==
    /\ outbox = [i \in 1..BatchRows |->
                    IF i <= batch_limit THEN NewRow(MsgText(1), "pending", 2)
                    ELSE IF i = batch_limit + 1 THEN NewRow(MsgText(1), "pending", 1)
                    ELSE NewRow(MsgText(1), "failed", 0)]
    /\ txn = outbox
    /\ pc = "idle"
    /\ fn = "v2"
    /\ messages = <<>>
    /\ handled = <<>>
    /\ selected = <<>>
    /\ last = NoLast
    /\ sends = [i \in 1..BatchRows |-> 0]
    /\ acked = [i \in 1..BatchRows |-> 0]
    /\ start = outbox
    /\ faults = MaxDbFaults
    /\ CodecIdle

NextLive == Poll \/ ProcessV2

SpecLive == InitLive /\ [][NextLive]_vars /\ WF_vars(NextLive)

\* The elements of a sequence of ids.
Ids(seq) == {seq[k] : k \in DOMAIN seq}

\* C12: one poll cycle sends at most 5 rows; the rows fetched are, at the
\* time of the SELECT, pending with attempts > 0 and have the smallest ids
\* among such rows; they are sent in ascending id order and no other row
\* is sent in the cycle.
C12_BatchSelection ==
    /\ Len(selected) <= 5
    /\ Len(handled) <= 5
    /\ \A i, j \in DOMAIN selected : i < j => selected[i] < selected[j]
    /\ Len(handled) <= Len(selected)
    /\ handled = SubSeq(selected, 1, Len(handled))
    /\ \A k \in DOMAIN messages :
          /\ messages[k].status = "pending"
          /\ messages[k].attempts > 0
          /\ messages[k].id = selected[Len(handled) + k]
    /\ (pc = "batch" /\ handled = <<>>) =>
          LET eligible == {id \in DOMAIN txn : Selectable(txn[id])}
          IN  /\ Ids(selected) \subseteq eligible
              /\ Len(selected) = IF Cardinality(eligible) < 5
                                 THEN Cardinality(eligible) ELSE 5
              /\ \A id \in eligible \ Ids(selected) :
                    \A s \in Ids(selected) : s < id
              /\ \A k \in DOMAIN messages :
                    messages[k] = [id |-> messages[k].id] @@ txn[messages[k].id]

\* Row 1 was not selectable and has not been sent; rows 2..6 have been
\* sent in this order in one cycle; row 7 was selectable and waits for the
\* next cycle.
C12_Witness ==
    /\ ~Selectable(start[1])
    /\ sends[1] = 0
    /\ handled = <<2, 3, 4, 5, 6>>
    /\ Selectable(outbox[7])
    /\ sends[7] = 0

\* C13: a row whose status is sent carries no error text: the success
\* transition clears what an earlier failed attempt stored.
C13_SentHasNoError ==
    \A id \in DOMAIN outbox :
        outbox[id].status = "sent" => outbox[id].error_message = <<>>

\* A row that failed once and was sent at its second attempt still has the
\* error text of the first.
C13_Witness ==
    /\ last.kind = "success"
    /\ last.path = "try"
    /\ sends[last.id] = 2
    /\ LastRow.status = "sent"
    /\ LastRow.error_message # <<>>

\* C14: send_sms writes no PDU after a part whose response is a failure:
\* every part but the last one written has a response that is a success
\* by the classification process_pending_sms applies.
C14_AbortAfterFailedPart ==
    (fn = "v1" /\ Len(last.responses) > 1) =>
        \A i \in 1..(Len(last.responses) - 1) :
            classify_response(last.responses[i], modem_timeout).is_success

\* The first part of a two-part message got +CMS ERROR and the second PDU
\* was written and answered all the same.
C14_Witness ==
    /\ fn = "v1"
    /\ Len(last.responses) = 2
    /\ contains(last.responses[1], TOK_CMS_ERROR)
    /\ contains(last.responses[2], TOK_CMGS)

\* C15: when the next message of a batch is sent, nothing of the messages
\* handled before it is uncommitted; the update of every message of the
\* cycle handled before the last one, and that of the last one unless its
\* handling ended in an exception, is in the committed table, which is
\* what a crash leaves.
C15_CommittedPerMessage ==
    /\ (pc = "batch" /\ handled # <<>>) => txn = outbox
    /\ \A k \in DOMAIN handled :
          (k < Len(handled) \/ last.path \in {"try", "except"}) =>
              /\ outbox[handled[k]] = txn[handled[k]]
              /\ outbox[handled[k]].updated_at = "NOW"
              /\ outbox[handled[k]] # start[handled[k]]

\* The first message of a batch was handled and committed; the handling of
\* the second ended in an exception and left its row as it was.
C15_Witness ==
    /\ Len(handled) = 2
    /\ last.path = "raised"
    /\ outbox[handled[1]] # start[handled[1]]
    /\ outbox[handled[1]].updated_at = "NOW"
    /\ outbox[handled[2]] = start[handled[2]]

\* C16: a failed UPDATE or commit for one message does not end the poll
\* cycle: when the cycle is over, every message the SELECT returned has
\* been attempted.
C16_DbFailureKeepsCycle ==
    pc = "idle" => handled = selected

\* The UPDATE or commit of the except block failed for the first of two
\* selected messages; the cycle is over and the second was never sent.
C16_Witness ==
    /\ pc = "idle"
    /\ Len(selected) = 2
    /\ handled = <<selected[1]>>
    /\ last.path = "raised"
    /\ last.fault \cap {"upd2", "com2"} # {}
    /\ sends[selected[2]] = 0
    /\ Selectable(outbox[selected[2]])

\* C17: when the send call raises and the except block's write goes
\* through, the row has one attempt less than the SELECT returned, is
\* failed when none is left and pending otherwise, holds the first 255
\* characters of the exception text, the write is committed, and the loop
\* goes on with the messages selected after it.
C17_ExceptionIsFailure ==
    (last.kind = "exception" /\ last.path = "except") =>
        LET row == outbox[last.id]
            new == last.attempts_left - 1
        IN  /\ row.attempts = new
            /\ row.status = (IF new <= 0 THEN "failed" ELSE "pending")
            /\ row.error_message = Slice(last.error, 0, error_limit)
            /\ Len(row.error_message) <= error_limit
            /\ row.updated_at = "NOW"
            /\ txn = outbox
            /\ handled \o [k \in DOMAIN messages |-> messages[k].id] = selected
            /\ pc = (IF messages = <<>> THEN "idle" ELSE "batch")

\* The send of the first of two messages raised with a text longer than
\* the column; the row holds its first 255 characters and the second
\* message is the next to be sent.
C17_Witness ==
    /\ last.kind = "exception"
    /\ last.path = "except"
    /\ Len(last.error) > error_limit
    /\ Len(outbox[last.id].error_message) = error_limit
    /\ outbox[last.id].attempts = last.attempts_left - 1
    /\ pc = "batch"
    /\ Len(messages) = 1
    /\ handled = <<last.id>>

\* C18: the daemon exits only between messages or between cycles: when it
\* has exited, no send was cut short, and every row for which a send was
\* started holds that send's outcome.
C18_ShutdownBetweenMessages ==
    pc = "exited" =>
        /\ last.kind # "interrupted"
        /\ \A id \in DOMAIN outbox : sends[id] > 0 => outbox[id] # start[id]

\* Ctrl+C arrived during the send of the third message of a batch: the
\* daemon has exited, the send was started and the row is as it was.
C18_Witness ==
    /\ pc = "exited"
    /\ last.kind = "interrupted"
    /\ Len(handled) = 3
    /\ sends[last.id] = 1
    /\ outbox[last.id] = start[last.id]
    /\ outbox[last.id].status = "pending"
    /\ outbox[handled[1]] # start[handled[1]]

\* C19: is_gsm7_compatible(text) is true exactly when every character of
\* text is in the basic alphabet or in the extended set ^ { } \ [ ~ ] |,
\* euro sign, form feed.
C19_Gsm7Membership ==
    op = "is_gsm7_compatible" =>
        (res <=> \A i \in DOMAIN arg :
                    arg[i] \in gsm7_basic_set \cup ref_extended_set)

\* A text of basic characters and a form feed is classified not GSM7.
C19_Witness ==
    /\ op = "is_gsm7_compatible"
    /\ \E i \in DOMAIN arg : arg[i] = 12
    /\ \A i \in DOMAIN arg : arg[i] = 12 \/ arg[i] \in gsm7_basic_set
    /\ res = FALSE

\* C20: the table and the connection's view of it always have the rows
\* the table started with; phone_number, recipient and message of every
\* row are as they started, and a row no send was started for is as it
\* started in every column.  A step changes, in the connection's view,
\* only the row of the message it handled, or takes rows back to their
\* committed content (rollback); in the table it changes only the row of
\* the message it handled or publishes what the connection had written.
C20_Frame ==
    /\ [](/\ DOMAIN outbox = DOMAIN start
          /\ DOMAIN txn = DOMAIN start
          /\ \A id \in DOMAIN start :
                /\ DOMAIN outbox[id] = DOMAIN start[id]
                /\ DOMAIN txn[id] = DOMAIN start[id]
                /\ outbox[id].phone_number = start[id].phone_number
                /\ outbox[id].recipient = start[id].recipient
                /\ outbox[id].message = start[id].message
                /\ txn[id].phone_number = start[id].phone_number
                /\ txn[id].recipient = start[id].recipient
                /\ txn[id].message = start[id].message
                /\ sends[id] = 0 => (outbox[id] = start[id] /\ txn[id] = start[id]))
    /\ [][\A id \in DOMAIN start :
            /\ txn'[id] # txn[id] =>
                  \/ (handled' = Append(handled, id) /\ last'.id = id)
                  \/ txn'[id] = outbox[id]
            /\ outbox'[id] # outbox[id] =>
                  \/ (handled' = Append(handled, id) /\ last'.id = id)
                  \/ outbox'[id] = txn[id]]_vars

\* Of two rows the first was sent, failed and was updated for a retry; the
\* second, still to be sent, is as it started.
C20_Witness ==
    /\ pc = "batch"
    /\ handled = <<1>>
    /\ last.kind = "failure"
    /\ outbox[1].attempts = start[1].attempts - 1
    /\ outbox[1].status = "pending"
    /\ outbox[1].error_message # <<>>
    /\ sends[2] = 0
    /\ outbox[2] = start[2]
    /\ Selectable(outbox[2])


(***************************************************************************)
(* Claims C21..C30.                                                        *)
(***************************************************************************)

\* Where the UDL byte of a PDU built for MsgPhone is: after SMSC length,
\* PDU type, message reference, address length, type of number, the
\* number, protocol identifier and data coding scheme.
UdlPos == 5 + Len(encode_phone_number(MsgPhone).bytes) + 2 + 1

\* The bytes of a PDU after its UDL byte.
AfterUdl(call) == SubSeq(call.built.pdu, UdlPos + 1, Len(call.built.pdu))

\* C21: a PDU built with total_parts > 1 has PDU type 0x41 and user data
\* that starts with UDHL = 5 and the five bytes 00 03 ref total part; a
\* PDU built with total_parts = 1 has PDU type 0x01 and user data that is
\* the encoded text alone.
C21_HeaderLayout ==
    op = "send_sms" =>
        \A i \in DOMAIN res :
            LET call == res[i]
                ud   == AfterUdl(call)
            IN  IF call.total_parts > 1
                THEN /\ call.built.pdu[2] = 65
                     /\ ud[1] = 5
                     /\ SubSeq(ud, 2, 6) = <<0, 3, call.ref_num % 256,
                                             call.total_parts, call.part_num>>
                ELSE /\ call.built.pdu[2] = 1
                     /\ ud = (IF is_gsm7_compatible(call.part)
                              THEN encode_gsm7(call.part)
                              ELSE utf16be(call.part, 1, Len(call.part)))

\* The second part of a two-part message, encoded as UCS2: the byte after
\* the UDL is 6, five header bytes follow it and the text's first octets
\* come right after them.
C21_Witness ==
    /\ op = "send_sms"
    /\ Len(res) = 2
    /\ ~is_gsm7_compatible(res[2].part)
    /\ res[2].built.pdu[2] = 65
    /\ AfterUdl(res[2])[1] = 6
    /\ SubSeq(AfterUdl(res[2]), 2, 6) = <<0, 3, res[2].ref_num, 2, 2>>
    /\ SubSeq(AfterUdl(res[2]), 7, 8) = utf16be_char(res[2].part[1])

\* C22: in a part of a multipart message that is encoded as UCS2, the UDL
\* byte is UDHL + 1 + the number of UTF-16BE octets of the part's text, and
\* that is the number of octets that follow the UDL byte.
C22_Ucs2Udl ==
    op = "send_sms" =>
        \A i \in DOMAIN res :
            (res[i].total_parts > 1 /\ ~is_gsm7_compatible(res[i].part)) =>
                LET pdu    == res[i].built.pdu
                    octets == Len(utf16be(res[i].part, 1, Len(res[i].part)))
                IN  /\ pdu[UdlPos] = pdu[UdlPos + 1] + 1 + octets
                    /\ pdu[UdlPos] = Len(AfterUdl(res[i]))

\* The second part of a two-part message, 4 characters encoded as UCS2:
\* UDL is 6 + 1 + 8 = 15 and 14 octets follow it.
C22_Witness ==
    /\ op = "send_sms"
    /\ Len(res) = 2
    /\ ~is_gsm7_compatible(res[2].part)
    /\ Len(res[2].part) = 4
    /\ res[2].built.pdu[UdlPos] = 15
    /\ Len(AfterUdl(res[2])) = 14

\* The padding of the specification for a header of header_octets octets:
\* 7 - (header_octets * 8 mod 7), 0 when the header ends on a septet
\* boundary.
ref_padding_bits(header_octets) ==
    LET p == 7 - ((header_octets * 8) % 7) IN IF p = 7 THEN 0 ELSE p

\* C23: in a part of a multipart message that is encoded as GSM7, the text
\* is packed starting at the bit shift 7 - (48 mod 7) = 1 that the six
\* octets before it (the UDHL byte and the five header bytes) leave, and
\* the UDL byte is the septets of the header with its padding, 7, plus the
\* septets of the text.
C23_Gsm7Padding ==
    op = "send_sms" =>
        \A i \in DOMAIN res :
            (res[i].total_parts > 1 /\ is_gsm7_compatible(res[i].part)) =>
                LET pdu  == res[i].built.pdu
                    ud   == AfterUdl(res[i])
                    part == res[i].part
                    header_octets == 1 + 5
                    padding == ref_padding_bits(header_octets)
                IN  /\ SubSeq(ud, header_octets + 1, Len(ud))
                          = encode_gsm7_with_padding(part, padding)
                    /\ pdu[UdlPos] = (header_octets * 8 + padding) \div 7
                                        + Len(text_septets(part, 1, Len(part)))

\* The first part, 153 letters, of a two-part GSM7 message: its septets
\* are packed from shift 0, as encode_gsm7 packs them, and not from shift
\* 1.
C23_Witness ==
    /\ op = "send_sms"
    /\ Len(res) = 2
    /\ is_gsm7_compatible(res[1].part)
    /\ Len(res[1].part) = 153
    /\ ref_padding_bits(6) = 1
    /\ SubSeq(AfterUdl(res[1]), 7, Len(AfterUdl(res[1]))) = encode_gsm7(res[1].part)
    /\ encode_gsm7(res[1].part) # encode_gsm7_with_padding(res[1].part, 1)
    /\ res[1].built.pdu[UdlPos] = 7 + 153

\* C24: the PDU of a single-part message has, as UDL, the number of
\* septets packed when the text is GSM7 (two for an extended character) and
\* the number of octets when it is UCS2, and the encoded text follows the
\* UDL with no header.
C24_SinglePartUdl ==
    (op = "send_sms" /\ Len(res) = 1 /\ res[1].total_parts = 1) =>
        LET pdu  == res[1].built.pdu
            text == res[1].part
        IN  /\ pdu[2] = 1
            /\ IF is_gsm7_compatible(text)
               THEN /\ pdu[UdlPos] = Len(text_septets(text, 1, Len(text)))
                    /\ AfterUdl(res[1]) = encode_gsm7(text)
               ELSE /\ pdu[UdlPos] = Len(utf16be(text, 1, Len(text)))
                    /\ AfterUdl(res[1]) = utf16be(text, 1, Len(text))

\* The text "[": the septets 1B 3C are packed and the UDL is 1.
C24_Witness ==
    /\ op = "send_sms"
    /\ arg = <<91>>
    /\ Len(res) = 1
    /\ text_septets(arg, 1, 1) = <<27, 60>>
    /\ res[1].built.pdu[UdlPos] = 1
    /\ AfterUdl(res[1]) = encode_gsm7(arg)

\* C25: the address-length byte of a PDU is the number of digits encoded
\* in the number field after it, the filler nibble F not counted.
C25_AddressLength ==
    op = "create_pdu" =>
        LET number == encode_phone_number(res.phone).bytes
            n      == Len(number)
            filler == IF n > 0 /\ number[n] \div 16 = 15 THEN 1 ELSE 0
        IN  /\ res.built.ok
            /\ SubSeq(res.built.pdu, 6, 5 + n) = number
            /\ res.built.pdu[4] = 2 * n - filler

\* "+19-01": the number field holds the four digits 1 9 0 1 and the
\* address length is 5.
C25_Witness ==
    /\ op = "create_pdu"
    /\ res.phone = <<43, 49, 57, 45, 48, 49>>
    /\ SubSeq(res.built.pdu, 4, 7) = <<5, 145, 145, 16>>

\* C26: every create_pdu call of send_sms has total_parts in 1..255 and
\* part_num in 1..total_parts, every byte of the PDU is below 256 and the
\* hex string has two digits per byte.
C26_PartFieldsFit ==
    op = "send_sms" =>
        \A i \in DOMAIN res :
            /\ res[i].total_parts \in 1..255
            /\ res[i].part_num \in 1..res[i].total_parts
            /\ \A k \in DOMAIN res[i].built.pdu : res[i].built.pdu[k] \in 0..255
            /\ Len(res[i].built.pdu_hex) = 2 * Len(res[i].built.pdu)

\* A text of 255 * 67 + 1 characters outside the GSM alphabet: 256 PDUs
\* are built, each with total_parts = 256 written as the three digits 100.
C26_Witness ==
    /\ op = "send_sms"
    /\ arg = LongText
    /\ Len(res) = 256
    /\ res[256].total_parts = 256
    /\ res[256].part_num = 256
    /\ UdhTotal(res[1]) = 256
    /\ Len(res[1].built.pdu_hex) = 2 * Len(res[1].built.pdu) + 1

\* C27: send_sms_pdu reads no chunk after a read that left ERROR in the
\* accumulated response.
C27_StopAtError ==
    op = "send_sms_pdu" =>
        /\ res.resp = join_parts(res.response_parts, Len(res.response_parts))
        /\ \A k \in 1..(Len(res.response_parts) - 1) :
              ~contains(join_parts(res.response_parts, k), TOK_ERROR)

\* The modem sent TOKEN ERROR at once and OK 1.2 s later: the loop went on
\* after the first read and stopped on the second, as a success.
C27_Witness ==
    /\ op = "send_sms_pdu"
    /\ Len(arg) = 2
    /\ arg[2].at = 12
    /\ res.response_parts = <<arg[1].data, arg[2].data>>
    /\ contains(arg[1].data, TOK_ERROR)
    /\ ~contains(arg[1].data, TOK_CMGS)
    /\ arg[2].data = <<13, 10, 79, 75, 13, 10>>
    /\ res.stop = "success"

\* C28: when the response send_sms returned to process_pending_sms
\* contains ERROR, the message is handled as a failure and its row is not
\* marked sent, whether or not the response also contains +CMGS:.
C28_ErrorNeverSent ==
    (fn = "v1" /\ last.kind \in {"success", "failure"}
        /\ contains(IF Len(last.responses) = 1 THEN last.responses[1]
                    ELSE join_lf(last.responses, Len(last.responses)),
                    TOK_ERROR)) =>
        /\ last.kind = "failure"
        /\ outbox[last.id].status # "sent"
        /\ txn[last.id].status # "sent"

\* A two-part message: the modem confirmed the first part with +CMGS: and
\* answered the second with +CMS ERROR; the row has one attempt less and is
\* not sent.
C28_Witness ==
    /\ fn = "v1"
    /\ Len(last.responses) = 2
    /\ contains(last.responses[1], TOK_CMGS)
    /\ contains(last.responses[2], TOK_CMS_ERROR)
    /\ last.kind = "failure"
    /\ last.path = "try"
    /\ outbox[last.id].status \in {"pending", "failed"}
    /\ outbox[last.id].attempts = last.attempts_left - 1
    /\ contains(outbox[last.id].error_message, TOK_CMGS)

\* C29: the read loop stops as a success only on an accumulated response
\* that contains +CMGS: or has a line equal to OK; and a response without
\* +CMGS: that process_pending_sms takes as sent while it contains the
\* letters OK has a line equal to OK.
C29_OkNeedsFullLine ==
    op = "classify_response" =>
        LET resp  == res.loop.resp
            parts == res.loop.response_parts
            n     == Len(parts)
        IN  /\ res.loop.stop = "success" =>
                  \E k \in {n - 1, n} \cap (1..n) :
                      \/ contains(join_parts(parts, k), TOK_CMGS)
                      \/ ok_lines(join_parts(parts, k)) >= 1
            /\ (res.is_success /\ ~contains(upper(strip(resp)), TOK_CMGS)
                    /\ contains(upper(strip(resp)), TOK_OK)) =>
                  ok_lines(resp) >= 1

\* The modem sent the line TOKEN and nothing else: the read loop went on
\* until the idle window ended it, and process_pending_sms takes the
\* response as sent.
C29_Witness ==
    /\ op = "classify_response"
    /\ arg = <<[at |-> 0, data |-> <<13, 10, 84, 79, 75, 69, 78, 13, 10>>]>>
    /\ res.loop.resp = arg[1].data
    /\ res.loop.stop = "idle"
    /\ ok_lines(res.loop.resp) = 0
    /\ res.is_success

\* "No response from modem (timeout after 3s)"
NoResponseText ==
    <<78, 111, 32, 114, 101, 115, 112, 111, 110, 115, 101, 32, 102, 114, 111,
      109, 32, 109, 111, 100, 101, 109, 32, 40, 116, 105, 109, 101, 111, 117,
      116, 32, 97, 102, 116, 101, 114, 32, 51, 115, 41>>

\* C30: when nothing arrives before the deadline, send_sms_pdu runs until
\* the deadline, never stopped by the idle window, and returns the empty
\* response; when that is all process_pending_sms gets for a message, the
\* message is a failure with the timeout text, its row is not marked sent
\* and, the database working, has one attempt less.
C30_SilenceIsTimeout ==
    /\ \A s \in DOMAIN silent_modem_results :
          LET r == silent_modem_results[s]
          IN  /\ r.resp = <<>>
              /\ r.stop = "deadline"
              /\ r.now = modem_timeout * ticks_per_second
              /\ ~r.got_any_data
    /\ (fn = "v1" /\ last.kind \in {"success", "failure"}
            /\ \A i \in DOMAIN last.responses : last.responses[i] = <<>>) =>
          /\ last.kind = "failure"
          /\ last.error = NoResponseText
          /\ outbox[last.id].status # "sent"
          /\ txn[last.id].status # "sent"
          /\ last.fault = {} =>
                /\ outbox[last.id].attempts = last.attempts_left - 1
                /\ outbox[last.id].error_message = NoResponseText

\* The modem stayed silent after the PDU of a row with 3 attempts: the row
\* is pending with 2 attempts and the timeout text.
C30_Witness ==
    /\ fn = "v1"
    /\ last.kind = "failure"
    /\ last.responses = <<<<>>>>
    /\ <<>> \in DOMAIN silent_modem_results
    /\ last.attempts_left = 3
    /\ outbox[last.id].status = "pending"
    /\ outbox[last.id].attempts = 2
    /\ outbox[last.id].error_message = NoResponseText


(***************************************************************************)
(* Claims C31..C40.                                                        *)
(***************************************************************************)

\* C31: send_sms_pdu writes ATE0, AT+CMGF=0, AT+CMGS=<tpdu_len> and the
\* hex PDU with 0x1A, once each and in that order, and the modem's prompt
\* for AT+CMGS has arrived when the PDU is written.
C31_WriteOrder ==
    op = "write_commands" =>
        /\ res.writes = <<<<65, 84, 69, 48, 13>>,
                          <<65, 84, 43, 67, 77, 71, 70, 61, 48, 13>>,
                          <<65, 84, 43, 67, 77, 71, 83, 61>>
                              \o int_str(res.tpdu_len) \o <<13>>,
                          Append(res.pdu_hex, 26)>>
        /\ \A i \in 1..3 : res.write_ticks[i] <= res.write_ticks[i + 1]
        /\ res.prompt_tick >= res.write_ticks[3]
        /\ res.prompt_tick <= res.write_ticks[4]

\* The prompt comes 0.8 s after AT+CMGS=14; the PDU was written 0.5 s
\* after it.
C31_Witness ==
    /\ op = "write_commands"
    /\ res.tpdu_len = 14
    /\ res.writes[3] = <<65, 84, 43, 67, 77, 71, 83, 61, 49, 52, 13>>
    /\ res.write_ticks[4] = 11
    /\ res.prompt_tick = 14

\* C32: every part split_message returns for a GSM7 text and a budget of at
\* least 2 weighs no more than the budget, extended characters weighing 2
\* and the others 1; an extended character is in exactly one part.
C32_PartsWithinBudget ==
    (op = "split_budget" /\ is_gsm7_compatible(arg)
        /\ res.chars_per_part >= 2) =>
        \A k \in DOMAIN res.parts :
            LET part == res.parts[k]
            IN  Cardinality({i \in 1..Len(part) : part[i] \in gsm7_extended_set})
                    + Len(part) <= res.chars_per_part

\* One letter and [ with a budget of 2: the bracket opens a second part.
C32_Witness ==
    /\ op = "split_budget"
    /\ arg = <<98, 91>>
    /\ res.chars_per_part = 2
    /\ res.parts = <<<<98>>, <<91>>>>

\* C33: encode_phone_number returns for every dial string, and the
\* semi-octets it returns are the digits of the string in order, followed
\* by one F when their number is odd; no other character of the string,
\* a + that is not its first character included, adds anything.
C33_DigitsOnly ==
    op = "encode_dial_string" =>
        LET digits == SelectSeq(res.phone, LAMBDA c : c \in 48..57)
            n      == Len(digits)
            nibble(i) == IF i <= n THEN digits[i] - 48 ELSE 15
        IN  /\ res.encoded.ok
            /\ Len(res.encoded.bytes) = (n + 1) \div 2
            /\ \A k \in 1..Len(res.encoded.bytes) :
                  res.encoded.bytes[k] = 16 * nibble(2 * k) + nibble(2 * k - 1)

\* "1+9": the + is kept and bytes.fromhex is given "+1F9".
C33_Witness ==
    /\ op = "encode_dial_string"
    /\ res.phone = <<49, 43, 57>>
    /\ ~res.encoded.ok

C35_NoResendAfterSuccess ==
    \A id \in DOMAIN acked : acked[id] # 0 => sends[id] = acked[id]

\* The first send of row 1 reported success and the UPDATE to 'sent'
\* raised; the row stayed pending and was sent a second time.
C35_Witness ==
    /\ acked[1] = 1
    /\ sends[1] = 2
    /\ last.id = 1
    /\ start[1].status = "pending"

\* C36: while the database answers and every send call returns, a row
\* that is pending with attempts > 0 eventually has status sent or failed,
\* whatever the sends of the rows with lower ids do.
C36_EventuallyTerminal ==
    <>(\A id \in DOMAIN outbox :
          Selectable(start[id]) => outbox[id].status \in {"sent", "failed"})

\* The five rows before row 6 failed twice each and are failed; row 6,
\* passed over by two poll cycles, was sent in the third.
C36_Witness ==
    /\ \A id \in 1..5 : outbox[id].status = "failed" /\ sends[id] = 2
    /\ outbox[6].status = "sent"
    /\ sends[6] = 1

\* C37: a row of the table whose status is sent or failed keeps its
\* status, attempts and error_message in every later step, is not sent
\* again and is not among the rows a later SELECT returns.
C37_TerminalAbsorbing ==
    [][\A id \in DOMAIN outbox :
          outbox[id].status \in {"sent", "failed"} =>
              /\ outbox'[id].status = outbox[id].status
              /\ outbox'[id].attempts = outbox[id].attempts
              /\ outbox'[id].error_message = outbox[id].error_message
              /\ sends'[id] = sends[id]
              /\ (pc = "idle" => id \notin Ids(selected'))]_vars

\* Row 1 was sent in an earlier cycle; the cycle under way selected row 2
\* alone and has handled it.
C37_Witness ==
    /\ outbox[1].status = "sent"
    /\ sends[1] = 1
    /\ start[2].status = "pending"
    /\ start[2].attempts > 0
    /\ selected = <<2>>
    /\ handled = <<2>>
    /\ last.id = 2
    /\ faults > 0

\* C38: encode_gsm7 returns ceil(7 * n / 8) octets for a text that gives n
\* septets.
C38_OctetCount ==
    op = "encode_gsm7" =>
        Len(res) = (7 * Len(text_septets(arg, 1, Len(arg))) + 7) \div 8

\* "AB": 2 septets, 14 bits, and three octets returned.
C38_Witness ==
    /\ op = "encode_gsm7"
    /\ arg = <<65, 66>>
    /\ Len(text_septets(arg, 1, Len(arg))) = 2
    /\ Len(res) = 3

\* C39: a character of the basic alphabet gives one septet, never 0x1B,
\* and different characters give different septets; 0x1B appears only as
\* the first septet of an extended character's pair; so two different
\* texts never give the same septets.
C39_EscapeOnlyForExtended ==
    op = "encode_gsm7" =>
        /\ \A i \in 1..Len(arg) :
              arg[i] \in gsm7_basic_set \ DOMAIN gsm7_extended_codes =>
                  /\ Len(char_septets(arg[i])) = 1
                  /\ char_septets(arg[i])[1] \in (0..127) \ {27}
                  /\ \A c \in Gsm7Chars \cap gsm7_basic_set :
                        char_septets(c) = char_septets(arg[i]) => c = arg[i]
        /\ \A other \in Strings(Gsm7Chars, MaxGsmLen) :
              text_septets(other, 1, Len(other)) = text_septets(arg, 1, Len(arg))
                  => other = arg

\* U+00C6 followed by = gives the septets 1B 3C, those of [ alone, and
\* the same two octets.
C39_Witness ==
    /\ op = "encode_gsm7"
    /\ arg = <<198, 61>>
    /\ text_septets(arg, 1, 2) = <<27, 60>>
    /\ text_septets(<<91>>, 1, 1) = <<27, 60>>
    /\ res = encode_gsm7(<<91>>)

\* parts[lo] \o ... \o parts[hi].
RECURSIVE ref_concat(_, _, _)
ref_concat(parts, lo, hi) ==
    IF lo > hi THEN <<>>
    ELSE IF lo = hi THEN parts[lo]
    ELSE LET mid == (lo + hi) \div 2
         IN  ref_concat(parts, lo, mid) \o ref_concat(parts, mid + 1, hi)

\* C40: for a non-empty text and a budget of at least 2, the parts
\* split_message returns are non-empty and, joined in order, are the text,
\* whether the text is GSM7 or UCS2.
C40_PartsJoinToText ==
    (op = "split_budget" /\ Len(arg) > 0 /\ res.chars_per_part >= 2) =>
        /\ Len(res.parts) > 0
        /\ \A k \in DOMAIN res.parts : res.parts[k] # <<>>
        /\ ref_concat(res.parts, 1, Len(res.parts)) = arg

\* 67 letters, U+4E2D and 152 letters cut into UCS2 parts of 67: four
\* parts, the last of 19 characters.
C40_Witness ==
    /\ op = "split_budget"
    /\ arg = Letters(67) \o <<20013>> \o Letters(152)
    /\ res.chars_per_part = 67
    /\ Len(res.parts) = 4
    /\ Len(res.parts[4]) = 19
    /\ res.parts[2][1] = 20013

====
